---------------------------- MODULE Spec2Model ----------------------------
(***************************************************************************)
(* The sandbox backends of deepagents (backends/sandbox.py) and its agent  *)
(* factory (graph.py).                                                     *)
(*                                                                         *)
(* BaseSandbox turns every file operation into one python3 script that it  *)
(* hands to execute(); GrpcSandbox forwards every operation to a remote    *)
(* service.  The filesystem of the sandbox is the state the scripts act    *)
(* on.  Text is a sequence of one-character strings; the text a script     *)
(* prints is a sequence of tokens, a token being one character or one      *)
(* literal piece of a message that the code prints as a whole.             *)
(*                                                                         *)
(* The specifications:                                                     *)
(*   Spec          one caller of a BaseSandbox, every call one execute();  *)
(*   SpecConc      two callers of one BaseSandbox whose write scripts run  *)
(*                 as two processes, interleaved at every system call;     *)
(*   SpecConcEdit  the same for two callers' edit scripts;                 *)
(*   SpecRpc       one caller of a GrpcSandbox's batch operations and the  *)
(*                 answers of the remote service;                          *)
(*   SpecGrpc      one GrpcSandbox instance: its id, its channel, and its  *)
(*                 unary and streamed operations;                          *)
(*   SpecResults   the results of the two backends side by side;           *)
(*   SpecDir       ls_info and glob_info of BaseSandbox;                   *)
(*   SpecRead      read over files that are there from the start;          *)
(*   SpecOps       all six operations of BaseSandbox, grep_raw included;   *)
(*   SpecGraph     the import of graph.py and calls of its functions.      *)
(***************************************************************************)
EXTENDS Integers, Sequences, FiniteSets, TLC

VARIABLES
    fs,      \* the sandbox's files: name -> [exists, data]
    last,    \* the call that has just returned: its arguments and its result
    prev,    \* between two calls: the path and content of the call that has
             \* just returned, when that was a successful write
    cpc,     \* SpecConc, SpecConcEdit: each caller's position in its script
    creq,    \* SpecConc: each caller's request
    cres,    \* SpecConc: each caller's returned result
    inst,    \* SpecGrpc: the fields of the GrpcSandbox instance
    chan,    \* SpecGrpc: the calls the instance has made on its stub and channel
    ids,     \* SpecGrpc: the values the id property has returned, in order
    graph    \* SpecGraph: the import of graph.py: the interpreter, the statement
             \* reached, the names bound and the exception raised

grpcvars == <<inst, chan, ids, graph>>

vars == <<fs, last, prev, cpc, creq, cres, inst, chan, ids, graph>>

---------------------------------------------------------------------------
(* Bounds of the model *)

\* the characters the sandbox's files hold, all files together
MaxLen == 2
\* longest old_string / new_string of an edit
MaxArg == 1
\* largest offset of a read
MaxOffset == 1
\* largest explicit limit of a read
MaxLimit == 2
\* longest batch of upload_files / download_files
MaxBatch == 2

---------------------------------------------------------------------------
(* Values *)

None == <<>>
Some(x) == <<x>>

\* the characters file contents and edit strings are made of
Alphabet == {"a", " ", "\n"}

\* str.rstrip() / str.strip() without argument strip these
Whitespace == {" ", "\t", "\n", "\r"}

StringsUpTo(n) == UNION {[1..k -> Alphabet] : k \in 0..n}

\* file names the scripts can address, and the paths callers pass
Names == {<<"p">>, <<"q">>}
Paths == Names \cup {<<"q", "'">>}

NoFile == [exists |-> FALSE, data |-> <<>>]
File(data) == [exists |-> TRUE, data |-> data]

Min(a, b) == IF a < b THEN a ELSE b
Max(a, b) == IF a > b THEN a ELSE b

---------------------------------------------------------------------------
(* Python's string operations, as the scripts and their callers use them *)

\* s[i:i+len(old)] == old
MatchAt(text, old, i) ==
    /\ i + Len(old) - 1 <= Len(text)
    /\ SubSeq(text, i, i + Len(old) - 1) = old

RECURSIVE CountFrom(_, _, _)
CountFrom(text, old, i) ==
    IF i + Len(old) - 1 > Len(text) THEN 0
    ELSE IF MatchAt(text, old, i) THEN 1 + CountFrom(text, old, i + Len(old))
    ELSE CountFrom(text, old, i + 1)

\* text.count(old): non-overlapping occurrences, len(text) + 1 for the empty string
PyCount(text, old) ==
    IF old = <<>> THEN Len(text) + 1 ELSE CountFrom(text, old, 1)

RECURSIVE ReplaceFrom(_, _, _, _, _)
ReplaceFrom(text, old, new, i, n) ==
    IF n = 0 \/ i > Len(text) THEN SubSeq(text, i, Len(text))
    ELSE IF MatchAt(text, old, i)
         THEN new \o ReplaceFrom(text, old, new, i + Len(old), n - 1)
    ELSE <<text[i]>> \o ReplaceFrom(text, old, new, i + 1, n)

RECURSIVE ReplaceEmpty(_, _, _, _)
ReplaceEmpty(text, new, i, n) ==
    IF n = 0 THEN SubSeq(text, i, Len(text))
    ELSE IF i > Len(text) THEN new
    ELSE new \o <<text[i]>> \o ReplaceEmpty(text, new, i + 1, n - 1)

\* text.replace(old, new, n); n = -1 replaces every occurrence
PyReplace(text, old, new, n) ==
    IF old = <<>> THEN ReplaceEmpty(text, new, 1, n)
    ELSE ReplaceFrom(text, old, new, 1, n)

RECURSIVE RStripChars(_, _)
RStripChars(s, chars) ==
    IF s # <<>> /\ s[Len(s)] \in chars
    THEN RStripChars(SubSeq(s, 1, Len(s) - 1), chars)
    ELSE s

RECURSIVE LStripChars(_, _)
LStripChars(s, chars) ==
    IF s # <<>> /\ s[1] \in chars
    THEN LStripChars(SubSeq(s, 2, Len(s)), chars)
    ELSE s

\* s.rstrip() and s.strip()
RStrip(s) == RStripChars(s, Whitespace)
Strip(s) == LStripChars(RStripChars(s, Whitespace), Whitespace)

\* index of the first "\n" of text, 0 when there is none
FirstNewline(text) ==
    IF \E i \in 1..Len(text) : text[i] = "\n"
    THEN CHOOSE i \in 1..Len(text) :
             text[i] = "\n" /\ \A j \in 1..(i - 1) : text[j] # "\n"
    ELSE 0

\* f.readlines(): the lines of the file, each with its line end
RECURSIVE ReadLines(_)
ReadLines(text) ==
    IF text = <<>> THEN <<>>
    ELSE LET k == FirstNewline(text) IN
         IF k = 0 THEN <<text>>
         ELSE <<SubSeq(text, 1, k)>> \o ReadLines(SubSeq(text, k + 1, Len(text)))

\* lines[start:end] for 0 <= start, 0 <= end
Slice(lines, start, end) ==
    IF start >= Len(lines) THEN <<>>
    ELSE SubSeq(lines, start + 1, Min(end, Len(lines)))

\* f'{n:6d}': right-aligned in a field six wide
Fmt6d(n) ==
    LET digits == ToString(n) IN
    CASE n < 10 -> "     " \o digits
      [] n < 100 -> "    " \o digits
      [] n < 1000 -> "   " \o digits
      [] n < 10000 -> "  " \o digits
      [] n < 100000 -> " " \o digits
      [] OTHER -> digits

\* token in tokens
Has(tokens, token) == \E i \in 1..Len(tokens) : tokens[i] = token

---------------------------------------------------------------------------
(* base64 over UTF-8, the transport encoding of content, old and new *)

\* content.encode('utf-8') of the ASCII characters modelled
Ord(c) ==
    CASE c = "a" -> 97
      [] c = " " -> 32
      [] c = "\n" -> 10
      [] c = "'" -> 39
      [] c = "\t" -> 9
      [] c = "*" -> 42
      [] c = "." -> 46
      [] c = "d" -> 100
      [] c = "p" -> 112
      [] c = "q" -> 113
      [] c = "s" -> 115

\* bytes.decode('utf-8') of the same characters
Chr(b) ==
    CASE b = 97 -> "a"
      [] b = 32 -> " "
      [] b = 10 -> "\n"
      [] b = 39 -> "'"
      [] b = 9 -> "\t"
      [] b = 42 -> "*"
      [] b = 46 -> "."
      [] b = 100 -> "d"
      [] b = 112 -> "p"
      [] b = 113 -> "q"
      [] b = 115 -> "s"

Utf8Encode(s) == [i \in 1..Len(s) |-> Ord(s[i])]
Utf8Decode(bs) == [i \in 1..Len(bs) |-> Chr(bs[i])]

\* the padding character "=" stands as 64 beside the sextets 0..63
B64Pad == 64

RECURSIVE B64Encode(_)
B64Encode(bs) ==
    IF Len(bs) = 0 THEN <<>>
    ELSE IF Len(bs) = 1
         THEN <<bs[1] \div 4, (bs[1] % 4) * 16, B64Pad, B64Pad>>
    ELSE IF Len(bs) = 2
         THEN <<bs[1] \div 4, (bs[1] % 4) * 16 + bs[2] \div 16,
                (bs[2] % 16) * 4, B64Pad>>
    ELSE <<bs[1] \div 4, (bs[1] % 4) * 16 + bs[2] \div 16,
           (bs[2] % 16) * 4 + bs[3] \div 64, bs[3] % 64>>
         \o B64Encode(SubSeq(bs, 4, Len(bs)))

RECURSIVE B64Decode(_)
B64Decode(ss) ==
    IF Len(ss) = 0 THEN <<>>
    ELSE LET b1 == ss[1] * 4 + ss[2] \div 16
             b2 == (ss[2] % 16) * 16 + ss[3] \div 4
             b3 == (ss[3] % 4) * 64 + ss[4]
         IN  IF ss[3] = B64Pad THEN <<b1>>
             ELSE IF ss[4] = B64Pad THEN <<b1, b2>>
             ELSE <<b1, b2, b3>> \o B64Decode(SubSeq(ss, 5, Len(ss)))

---------------------------------------------------------------------------
(* The scripts: what execute(command) does to the sandbox's files *)

\* the exit code of an interpreter that ends on an uncaught exception
UncaughtExit == 1

\* texts the scripts and the interpreter print as a whole
SyntaxErrorText == "SyntaxError: unterminated string literal"
NoSuchFileText == "FileNotFoundError: [Errno 2] No such file or directory"
ErrorFileHead == "Error: File '"
ExistsTail == "' already exists"
NotFoundMarker == "Error: File not found"
EmptyNotice == "System reminder: File exists but has empty contents"

\* the tokens in which the text "Error:" occurs
ErrorColonTokens == {SyntaxErrorText, NoSuchFileText, ErrorFileHead, NotFoundMarker}

\* a path that closes the quoted literal it is written into and goes on as
\* Python source: file_path = '{file_path}' becomes
\* file_path = ''+str(os.remove('n'))+'', which removes the file n and leaves
\* the name 'None' in file_path
RemoveHead == "'+str(os.remove('"
RemoveTail == "'))+'"
RemovingPath(name) == <<RemoveHead, name[1], RemoveTail>>
ClosesLiteral(file_path) ==
    Len(file_path) = 3 /\ file_path[1] = RemoveHead /\ file_path[3] = RemoveTail

\* '{file_path}' in a template is the raw path between two quotes: a quote
\* character inside the path ends the literal early and what follows it is an
\* unterminated literal, so the interpreter rejects the whole script before
\* running any of it.
ScriptCompiles(file_path) == \A i \in 1..Len(file_path) : file_path[i] # "'"

ExecuteResponse(fsys, output, exit_code) ==
    [fs |-> fsys, output |-> output, exit_code |-> exit_code]

SyntaxErrorResponse(fsys) == ExecuteResponse(fsys, <<SyntaxErrorText, "\n">>, 1)

\* os.path.exists(file_path) / os.path.isfile(file_path)
PathExists(fsys, file_path) == file_path \in Names /\ fsys[file_path].exists

\* open(file_path, 'w'): creates the file, or truncates the one that is there
OpenForWrite(fsys, file_path) == [fsys EXCEPT ![file_path] = File(<<>>)]

\* f.write(content) and the close that flushes it: the bytes land at the
\* descriptor's own offset 0, over whatever the file holds by then
WriteAndClose(fsys, file_path, content) ==
    LET old == fsys[file_path].data IN
    [fsys EXCEPT ![file_path] =
        File(content \o SubSeq(old, Len(content) + 1, Len(old)))]

\* the write script's answer for a file that is already there
ExistsResponse(fsys, file_path) ==
    ExecuteResponse(fsys, <<ErrorFileHead>> \o file_path \o <<ExistsTail, "\n">>, 1)

\* the write script without its existence check
WriteScriptNoCheck(fsys, file_path, content_b64) ==
    IF ~ScriptCompiles(file_path) THEN SyntaxErrorResponse(fsys)
    ELSE LET content == Utf8Decode(B64Decode(content_b64)) IN
         ExecuteResponse(
             WriteAndClose(OpenForWrite(fsys, file_path), file_path, content),
             <<>>, 0)

\* _WRITE_COMMAND_TEMPLATE
WriteScript(fsys, file_path, content_b64) ==
    IF ~ScriptCompiles(file_path) THEN SyntaxErrorResponse(fsys)
    ELSE IF PathExists(fsys, file_path)
         THEN ExistsResponse(fsys, file_path)
    ELSE LET content == Utf8Decode(B64Decode(content_b64)) IN
         ExecuteResponse(
             WriteAndClose(OpenForWrite(fsys, file_path), file_path, content),
             <<>>, 0)

\* the numbered lines the read script prints for lines[offset:offset+limit]
RECURSIVE FormatLines(_, _, _)
FormatLines(selected_lines, offset, i) ==
    IF i >= Len(selected_lines) THEN <<>>
    ELSE LET line_num == offset + i + 1
             line_content == RStripChars(selected_lines[i + 1], {"\n"})
         IN  <<Fmt6d(line_num), "\t">> \o line_content \o <<"\n">>
             \o FormatLines(selected_lines, offset, i + 1)

\* the read script with lines[offset:limit] for its slice
ReadScriptLimitAsEnd(fsys, file_path, offset, limit) ==
    IF ~ScriptCompiles(file_path) THEN SyntaxErrorResponse(fsys)
    ELSE IF ~PathExists(fsys, file_path)
         THEN ExecuteResponse(fsys, <<NotFoundMarker, "\n">>, 1)
    ELSE IF Len(fsys[file_path].data) = 0
         THEN ExecuteResponse(fsys, <<EmptyNotice, "\n">>, 0)
    ELSE LET lines == ReadLines(fsys[file_path].data)
             selected_lines == Slice(lines, offset, limit)
         IN  ExecuteResponse(fsys, FormatLines(selected_lines, offset, 0), 0)

\* _READ_COMMAND_TEMPLATE
ReadScript(fsys, file_path, offset, limit) ==
    IF ~ScriptCompiles(file_path) THEN SyntaxErrorResponse(fsys)
    ELSE IF ClosesLiteral(file_path)
         THEN LET target == <<file_path[2]>> IN
              IF ~PathExists(fsys, target)
              THEN ExecuteResponse(fsys, <<NoSuchFileText, "\n">>, UncaughtExit)
              ELSE ExecuteResponse([fsys EXCEPT ![target] = NoFile],
                                   <<NotFoundMarker, "\n">>, 1)
    ELSE IF ~PathExists(fsys, file_path)
         THEN ExecuteResponse(fsys, <<NotFoundMarker, "\n">>, 1)
    ELSE IF Len(fsys[file_path].data) = 0
         THEN ExecuteResponse(fsys, <<EmptyNotice, "\n">>, 0)
    ELSE LET lines == ReadLines(fsys[file_path].data)
             selected_lines == Slice(lines, offset, offset + limit)
         IN  ExecuteResponse(fsys, FormatLines(selected_lines, offset, 0), 0)

\* the replacement that stops after the first occurrence whatever replace_all is
EditedTextFirstOnly(text, old, new, replace_all) == PyReplace(text, old, new, 1)

\* the text the edit script writes back: text.replace(old, new[, 1])
EditedText(text, old, new, replace_all) ==
    IF replace_all THEN PyReplace(text, old, new, -1)
    ELSE PyReplace(text, old, new, 1)

\* sys.exit(1): old_string is not in the file
ExitNotFound == 1
\* sys.exit(2): several occurrences and no replace_all
ExitMultiple == 2

\* the edit script that replaces the first of several occurrences instead of
\* refusing
EditScriptNoAmbiguityCheck(fsys, file_path, old_b64, new_b64, replace_all) ==
    IF ~ScriptCompiles(file_path) THEN SyntaxErrorResponse(fsys)
    ELSE IF ~PathExists(fsys, file_path)
         THEN ExecuteResponse(fsys, <<NoSuchFileText, "\n">>, UncaughtExit)
    ELSE LET text == fsys[file_path].data
             old == Utf8Decode(B64Decode(old_b64))
             new == Utf8Decode(B64Decode(new_b64))
             count == PyCount(text, old)
         IN  IF count = 0 THEN ExecuteResponse(fsys, <<>>, ExitNotFound)
             ELSE ExecuteResponse(
                      WriteAndClose(OpenForWrite(fsys, file_path), file_path,
                                    EditedText(text, old, new, replace_all)),
                      <<ToString(count), "\n">>, 0)

\* the edit script without its count == 0 exit
EditScriptNoMissingCheck(fsys, file_path, old_b64, new_b64, replace_all) ==
    IF ~ScriptCompiles(file_path) THEN SyntaxErrorResponse(fsys)
    ELSE IF ~PathExists(fsys, file_path)
         THEN ExecuteResponse(fsys, <<NoSuchFileText, "\n">>, UncaughtExit)
    ELSE LET text == fsys[file_path].data
             old == Utf8Decode(B64Decode(old_b64))
             new == Utf8Decode(B64Decode(new_b64))
             count == PyCount(text, old)
         IN  IF count > 1 /\ ~replace_all
             THEN ExecuteResponse(fsys, <<>>, ExitMultiple)
             ELSE ExecuteResponse(
                      WriteAndClose(OpenForWrite(fsys, file_path), file_path,
                                    EditedText(text, old, new, replace_all)),
                      <<ToString(count), "\n">>, 0)

\* _EDIT_COMMAND_TEMPLATE
EditScript(fsys, file_path, old_b64, new_b64, replace_all) ==
    IF ~ScriptCompiles(file_path) THEN SyntaxErrorResponse(fsys)
    ELSE IF ~PathExists(fsys, file_path)
         THEN ExecuteResponse(fsys, <<NoSuchFileText, "\n">>, UncaughtExit)
    ELSE LET text == fsys[file_path].data
             old == Utf8Decode(B64Decode(old_b64))
             new == Utf8Decode(B64Decode(new_b64))
             count == PyCount(text, old)
         IN  IF count = 0 THEN ExecuteResponse(fsys, <<>>, ExitNotFound)
             ELSE IF count > 1 /\ ~replace_all
                  THEN ExecuteResponse(fsys, <<>>, ExitMultiple)
             ELSE ExecuteResponse(
                      WriteAndClose(OpenForWrite(fsys, file_path), file_path,
                                    EditedText(text, old, new, replace_all)),
                      <<ToString(count), "\n">>, 0)

\* execute(command): the abstract primitive, run against the sandbox's files
execute(fsys, cmd) ==
    CASE cmd.script = "write" -> WriteScript(fsys, cmd.file_path, cmd.content_b64)
      [] cmd.script = "read" -> ReadScript(fsys, cmd.file_path, cmd.offset, cmd.limit)
      [] cmd.script = "edit" ->
            EditScript(fsys, cmd.file_path, cmd.old_b64, cmd.new_b64, cmd.replace_all)

---------------------------------------------------------------------------
(* BaseSandbox: each method builds one command, runs it and reads the answer *)

WriteResult(error, path) == [error |-> error, path |-> path, files_update |-> None]

EditResult(error, path, occurrences) ==
    [error |-> error, path |-> path, files_update |-> None,
     occurrences |-> occurrences]

\* "Error:" in result.output
HasErrorColon(output) == \E i \in 1..Len(output) : output[i] \in ErrorColonTokens

FailedToWrite(file_path) == <<"Failed to write file '">> \o file_path \o <<"'">>

FileNotFoundError(file_path) == <<ErrorFileHead>> \o file_path \o <<"' not found">>

StringNotFoundError(old_string) ==
    <<"Error: String not found in file: '">> \o old_string \o <<"'">>

MultipleOccurrencesError(old_string) ==
    <<"Error: String '">> \o old_string
    \o <<"' appears multiple times. Use replace_all=True to replace all occurrences.">>

\* int(output) of the count the edit script printed
PyInt(output) == CHOOSE n \in 0..(MaxLen + 1) : <<ToString(n)>> = output

\* BaseSandbox.write, up to execute(): the command it builds
WriteCommand(file_path, content) ==
    LET content_b64 == B64Encode(Utf8Encode(content)) IN
    [script |-> "write", file_path |-> file_path, content_b64 |-> content_b64]

\* BaseSandbox.write, after execute(): the WriteResult it makes of the response
WriteValue(file_path, result) ==
    LET stripped == Strip(result.output)
        error_msg == IF stripped # <<>> THEN stripped ELSE FailedToWrite(file_path)
    IN  IF result.exit_code # 0 \/ HasErrorColon(result.output)
        THEN WriteResult(Some(error_msg), None)
        ELSE WriteResult(None, Some(file_path))

\* a write that asks whether the file exists in a command of its own, and
\* writes in a second command
write_two_round_trips(fsys, file_path, content) ==
    LET check == [script |-> "exists", file_path |-> file_path]
        cmd == WriteCommand(file_path, content)
        result == execute(fsys, cmd)
    IN  [fs |-> result.fs, value |-> WriteValue(file_path, result),
         commands |-> <<check, cmd>>]

\* BaseSandbox.write
write(fsys, file_path, content) ==
    LET cmd == WriteCommand(file_path, content)
        result == execute(fsys, cmd)
    IN  [fs |-> result.fs, value |-> WriteValue(file_path, result),
         commands |-> <<cmd>>]

\* BaseSandbox.read that looks at the exit code alone
read_exit_code_only(fsys, file_path, offset, limit) ==
    LET cmd == [script |-> "read", file_path |-> file_path,
                offset |-> offset, limit |-> limit]
        result == execute(fsys, cmd)
        output == RStrip(result.output)
    IN  [fs |-> result.fs,
         value |-> IF result.exit_code # 0
                   THEN FileNotFoundError(file_path)
                   ELSE output,
         commands |-> <<cmd>>]

\* BaseSandbox.read
read(fsys, file_path, offset, limit) ==
    LET cmd == [script |-> "read", file_path |-> file_path,
                offset |-> offset, limit |-> limit]
        result == execute(fsys, cmd)
        output == RStrip(result.output)
    IN  [fs |-> result.fs,
         value |-> IF result.exit_code # 0 \/ Has(output, NotFoundMarker)
                   THEN FileNotFoundError(file_path)
                   ELSE output,
         commands |-> <<cmd>>]

\* BaseSandbox.edit, after execute(): the EditResult it makes of the response
EditValue(file_path, old_string, result) ==
    LET output == Strip(result.output) IN
    IF result.exit_code = 1
    THEN EditResult(Some(StringNotFoundError(old_string)), None, None)
    ELSE IF result.exit_code = 2
    THEN EditResult(Some(MultipleOccurrencesError(old_string)), None, None)
    ELSE IF result.exit_code # 0
    THEN EditResult(Some(FileNotFoundError(file_path)), None, None)
    ELSE EditResult(None, Some(file_path), Some(PyInt(output)))

\* BaseSandbox.edit
edit(fsys, file_path, old_string, new_string, replace_all) ==
    LET old_b64 == B64Encode(Utf8Encode(old_string))
        new_b64 == B64Encode(Utf8Encode(new_string))
        cmd == [script |-> "edit", file_path |-> file_path, old_b64 |-> old_b64,
                new_b64 |-> new_b64, replace_all |-> replace_all]
        result == execute(fsys, cmd)
    IN  [fs |-> result.fs, value |-> EditValue(file_path, old_string, result),
         commands |-> <<cmd>>]

\* read(file_path, offset: int = 0, limit: int = 2000)
DefaultOffset == 0
DefaultLimit == 2000

---------------------------------------------------------------------------
(* Spec: one caller, one BaseSandbox *)

NoCall == [op |-> "none"]

\* no call is under way: the caller may make its next one
Idle == last.op = "none"

\* the record of a call: its arguments, the files before it, the commands it
\* handed to execute(), what it returned, and for a write or a read the
\* successful write that it follows immediately
Call(op, file_path, args, commands, result) ==
    [op |-> op, file_path |-> file_path, args |-> args, before |-> fs,
     follows |-> IF op \in {"write", "read"} THEN prev ELSE None,
     commands |-> commands, result |-> result]

Contents == StringsUpTo(MaxLen)
EditStrings == StringsUpTo(MaxArg)
Offsets == 0..MaxOffset
Limits == (1..MaxLimit) \cup {DefaultLimit}

Callers == {"c1", "c2"}

\* the caller variables outside SpecConc
ConcIdle == <<>>

\* the instance variables where no GrpcSandbox instance is followed
NoInstance ==
    /\ inst = <<>>
    /\ chan = <<>>
    /\ ids = <<>>
    /\ graph = <<>>

InitFiles == [n \in Names |-> NoFile]

Init ==
    /\ fs = InitFiles
    /\ last = NoCall
    /\ prev = None
    /\ cpc = ConcIdle
    /\ creq = ConcIdle
    /\ cres = ConcIdle
    /\ NoInstance

RECURSIVE TotalSize(_, _)
TotalSize(fsys, names) ==
    IF names = {} THEN 0
    ELSE LET n == CHOOSE x \in names : TRUE IN
         Len(fsys[n].data) + TotalSize(fsys, names \ {n})

\* the sandbox holds at most MaxLen characters
Fits(fsys) == TotalSize(fsys, Names) <= MaxLen

Write(file_path, content) ==
    /\ Idle
    /\ LET r == write(fs, file_path, content) IN
       /\ Fits(r.fs)
       /\ fs' = r.fs
       /\ last' = Call("write", file_path, [content |-> content], r.commands,
                       r.value)
    /\ prev' = None
    /\ UNCHANGED <<cpc, creq, cres, grpcvars>>

Read(file_path, offset, limit) ==
    /\ Idle
    /\ LET r == read(fs, file_path, offset, limit) IN
       /\ fs' = r.fs
       /\ last' = Call("read", file_path, [offset |-> offset, limit |-> limit],
                       r.commands, r.value)
    /\ prev' = None
    /\ UNCHANGED <<cpc, creq, cres, grpcvars>>

Edit(file_path, old_string, new_string, replace_all) ==
    /\ Idle
    /\ LET r == edit(fs, file_path, old_string, new_string, replace_all) IN
       /\ Fits(r.fs)
       /\ fs' = r.fs
       /\ last' = Call("edit", file_path,
                       [old_string |-> old_string, new_string |-> new_string,
                        replace_all |-> replace_all], r.commands, r.value)
    /\ prev' = None
    /\ UNCHANGED <<cpc, creq, cres, grpcvars>>

\* the caller takes the returned value and goes on to its next call
Resume ==
    /\ last.op # "none"
    /\ prev' = IF last.op = "write" /\ last.result.path # None
               THEN Some([file_path |-> last.file_path,
                          content |-> last.args.content])
               ELSE None
    /\ last' = NoCall
    /\ UNCHANGED <<fs, cpc, creq, cres, grpcvars>>

Next ==
    \/ Idle /\ \E file_path \in Paths, content \in Contents :
           Write(file_path, content)
    \/ Idle /\ \E file_path \in Paths, offset \in Offsets, limit \in Limits :
           Read(file_path, offset, limit)
    \/ Idle /\ \E file_path \in Paths, old_string \in EditStrings,
                  new_string \in EditStrings, replace_all \in BOOLEAN :
           Edit(file_path, old_string, new_string, replace_all)
    \/ Resume

Spec == Init /\ [][Next]_vars

---------------------------------------------------------------------------
(* SpecConc: two callers write through one BaseSandbox; each execute() is a
   process of its own, and the processes' system calls interleave *)

NoRequest == [file_path |-> <<>>, content_b64 |-> <<>>, content |-> <<>>]

InitConc ==
    /\ fs = InitFiles
    /\ last = NoCall
    /\ prev = None
    /\ cpc = [c \in Callers |-> "idle"]
    /\ creq = [c \in Callers |-> NoRequest]
    /\ cres = [c \in Callers |-> None]
    /\ NoInstance

\* the script's process ends with `response`; write() returns its WriteResult
ConcReturn(c, response) ==
    /\ cpc' = [cpc EXCEPT ![c] = "returned"]
    /\ cres' = [cres EXCEPT ![c] = Some(WriteValue(creq[c].file_path, response))]

\* write() builds its command and execute() starts the script
ConcWrite(c, file_path, content) ==
    /\ cpc[c] = "idle"
    /\ creq' = [creq EXCEPT ![c] =
                   [file_path |-> file_path,
                    content_b64 |-> WriteCommand(file_path, content).content_b64,
                    content |-> content]]
    /\ cpc' = [cpc EXCEPT ![c] = "exists"]
    /\ UNCHANGED <<fs, last, prev, cres, grpcvars>>

\* if os.path.exists(file_path): ... sys.exit(1)
ConcExists(c) ==
    /\ cpc[c] = "exists"
    /\ IF ~ScriptCompiles(creq[c].file_path)
       THEN ConcReturn(c, SyntaxErrorResponse(fs))
       ELSE IF PathExists(fs, creq[c].file_path)
            THEN ConcReturn(c, ExistsResponse(fs, creq[c].file_path))
       ELSE cpc' = [cpc EXCEPT ![c] = "makedirs"] /\ cres' = cres
    /\ UNCHANGED <<fs, last, prev, creq, grpcvars>>

\* os.makedirs(parent_dir, exist_ok=True): the parent of a name is '.'
ConcMakedirs(c) ==
    /\ cpc[c] = "makedirs"
    /\ cpc' = [cpc EXCEPT ![c] = "open"]
    /\ UNCHANGED <<fs, last, prev, creq, cres, grpcvars>>

\* with open(file_path, 'w') as f:
ConcOpen(c) ==
    /\ cpc[c] = "open"
    /\ fs' = OpenForWrite(fs, creq[c].file_path)
    /\ cpc' = [cpc EXCEPT ![c] = "write"]
    /\ UNCHANGED <<last, prev, creq, cres, grpcvars>>

\* f.write(content), the close, and the end of the process
ConcWriteClose(c) ==
    /\ cpc[c] = "write"
    /\ LET content == Utf8Decode(B64Decode(creq[c].content_b64))
           after == WriteAndClose(fs, creq[c].file_path, content)
       IN  /\ fs' = after
           /\ ConcReturn(c, ExecuteResponse(after, <<>>, 0))
    /\ UNCHANGED <<last, prev, creq, grpcvars>>

NextConc ==
    \/ \E c \in Callers : cpc[c] = "idle" /\ \E file_path \in Paths,
                                                content \in Contents :
           ConcWrite(c, file_path, content)
    \/ \E c \in Callers : ConcExists(c)
    \/ \E c \in Callers : ConcMakedirs(c)
    \/ \E c \in Callers : ConcOpen(c)
    \/ \E c \in Callers : ConcWriteClose(c)

SpecConc == InitConc /\ [][NextConc]_vars

---------------------------------------------------------------------------
(* SpecConcEdit: two callers edit through one BaseSandbox; each execute() is
   a process of its own that reads the file, computes, and writes it back *)

NoEditRequest ==
    [file_path |-> <<>>, old_string |-> <<>>, old_b64 |-> <<>>,
     new_b64 |-> <<>>, replace_all |-> FALSE, text |-> <<>>]

\* the file the callers edit, and the texts an earlier write left in it
EditedFile == <<"p">>
ConcEditTexts == {text \in Contents : Len(text) = MaxLen}
ConcEditNews == {<<>>, <<"\n">>}

InitConcEdit ==
    /\ \E text \in ConcEditTexts :
           /\ fs = [InitFiles EXCEPT ![EditedFile] = File(text)]
           /\ prev = Some([file_path |-> EditedFile, content |-> text])
    /\ last = NoCall
    /\ cpc = [c \in Callers |-> "idle"]
    /\ creq = [c \in Callers |-> NoEditRequest]
    /\ cres = [c \in Callers |-> None]
    /\ NoInstance

\* the script's process ends with `response`; edit() returns its EditResult
ConcEditReturn(c, response) ==
    /\ cpc' = [cpc EXCEPT ![c] = "returned"]
    /\ cres' = [cres EXCEPT ![c] =
                   Some(EditValue(creq[c].file_path, creq[c].old_string, response))]

\* edit() builds its command and execute() starts the script
ConcEdit(c, file_path, old_string, new_string, replace_all) ==
    /\ cpc[c] = "idle"
    /\ creq' = [creq EXCEPT ![c] =
                   [file_path |-> file_path, old_string |-> old_string,
                    old_b64 |-> B64Encode(Utf8Encode(old_string)),
                    new_b64 |-> B64Encode(Utf8Encode(new_string)),
                    replace_all |-> replace_all, text |-> <<>>]]
    /\ cpc' = [cpc EXCEPT ![c] = "read"]
    /\ UNCHANGED <<fs, last, prev, cres, grpcvars>>

\* with open(file_path, 'r') as f: text = f.read()
ConcEditRead(c) ==
    /\ cpc[c] = "read"
    /\ IF ~ScriptCompiles(creq[c].file_path)
       THEN ConcEditReturn(c, SyntaxErrorResponse(fs)) /\ creq' = creq
       ELSE IF ~PathExists(fs, creq[c].file_path)
            THEN /\ ConcEditReturn(c, ExecuteResponse(fs, <<NoSuchFileText, "\n">>,
                                                      UncaughtExit))
                 /\ creq' = creq
       ELSE /\ creq' = [creq EXCEPT ![c].text = fs[creq[c].file_path].data]
            /\ cpc' = [cpc EXCEPT ![c] = "count"]
            /\ cres' = cres
    /\ UNCHANGED <<fs, last, prev, grpcvars>>

\* count = text.count(old) and the two sys.exit
ConcEditCount(c) ==
    /\ cpc[c] = "count"
    /\ LET old == Utf8Decode(B64Decode(creq[c].old_b64))
           count == PyCount(creq[c].text, old)
       IN  IF count = 0 THEN ConcEditReturn(c, ExecuteResponse(fs, <<>>, ExitNotFound))
           ELSE IF count > 1 /\ ~creq[c].replace_all
                THEN ConcEditReturn(c, ExecuteResponse(fs, <<>>, ExitMultiple))
           ELSE cpc' = [cpc EXCEPT ![c] = "open"] /\ cres' = cres
    /\ UNCHANGED <<fs, last, prev, creq, grpcvars>>

\* with open(file_path, 'w') as f:
ConcEditOpen(c) ==
    /\ cpc[c] = "open"
    /\ fs' = OpenForWrite(fs, creq[c].file_path)
    /\ cpc' = [cpc EXCEPT ![c] = "write"]
    /\ UNCHANGED <<last, prev, creq, cres, grpcvars>>

\* f.write(result), the close, print(count) and the end of the process
ConcEditWriteClose(c) ==
    /\ cpc[c] = "write"
    /\ LET old == Utf8Decode(B64Decode(creq[c].old_b64))
           new == Utf8Decode(B64Decode(creq[c].new_b64))
           result == EditedText(creq[c].text, old, new, creq[c].replace_all)
           after == WriteAndClose(fs, creq[c].file_path, result)
       IN  /\ Fits(after)
           /\ fs' = after
           /\ ConcEditReturn(c, ExecuteResponse(
                  after, <<ToString(PyCount(creq[c].text, old)), "\n">>, 0))
    /\ UNCHANGED <<last, prev, creq, grpcvars>>

NextConcEdit ==
    \/ \E c \in Callers : cpc[c] = "idle" /\
           \E file_path \in Names, old_string \in EditStrings,
              new_string \in ConcEditNews, replace_all \in BOOLEAN :
               ConcEdit(c, file_path, old_string, new_string, replace_all)
    \/ \E c \in Callers : ConcEditRead(c)
    \/ \E c \in Callers : ConcEditCount(c)
    \/ \E c \in Callers : ConcEditOpen(c)
    \/ \E c \in Callers : ConcEditWriteClose(c)

SpecConcEdit == InitConcEdit /\ [][NextConcEdit]_vars

---------------------------------------------------------------------------
(* SpecRpc: one caller of a GrpcSandbox; the remote service answers each call
   with a response, or the call fails with grpc.RpcError *)

\* what a method hands its caller: a value, or an exception that escapes it
Returned(value) == [raised |-> FALSE, value |-> value]
Raised == [raised |-> TRUE, value |-> None]

FileUploadResponse(path, error) == [path |-> path, error |-> error]
FileDownloadResponse(path, content, error) ==
    [path |-> path, content |-> content, error |-> error]

\* a protobuf string field: "" when the service set no error
RpcErrors == {"", "denied"}
RpcBytes == {<<>>, <<97>>}

\* result.error if result.error else None
ErrorOrNone(error) == IF error # "" THEN Some(error) ELSE None

\* upload_files without its except clause: the RpcError escapes
upload_files_unguarded(files, answer) ==
    IF ~answer.failed
    THEN Returned([i \in 1..Len(answer.results) |->
             FileUploadResponse(answer.results[i].path,
                                ErrorOrNone(answer.results[i].error))])
    ELSE Raised

\* upload_files that fails as a whole: one rejected file marks every entry
upload_files_atomic(files, answer) ==
    IF ~answer.failed
    THEN LET rejected == {i \in 1..Len(answer.results) :
                             answer.results[i].error # ""}
         IN  Returned([i \in 1..Len(answer.results) |->
                 FileUploadResponse(
                     answer.results[i].path,
                     IF rejected = {} THEN None
                     ELSE Some(answer.results[CHOOSE r \in rejected : TRUE].error))])
    ELSE Returned([i \in 1..Len(files) |->
             FileUploadResponse(files[i][1], Some("permission_denied"))])

\* GrpcSandbox.upload_files
upload_files(files, answer) ==
    IF ~answer.failed
    THEN Returned([i \in 1..Len(answer.results) |->
             FileUploadResponse(answer.results[i].path,
                                ErrorOrNone(answer.results[i].error))])
    ELSE Returned([i \in 1..Len(files) |->
             FileUploadResponse(files[i][1], Some("permission_denied"))])

\* GrpcSandbox.download_files
download_files(paths, answer) ==
    IF ~answer.failed
    THEN Returned([i \in 1..Len(answer.results) |->
             FileDownloadResponse(
                 answer.results[i].path,
                 IF answer.results[i].error = ""
                 THEN Some(answer.results[i].content) ELSE None,
                 ErrorOrNone(answer.results[i].error))])
    ELSE Returned([i \in 1..Len(paths) |->
             FileDownloadResponse(paths[i], None, Some("file_not_found"))])

SeqsUpTo(S, n) == UNION {[1..k -> S] : k \in 0..n}

\* the answers of the remote service: an RpcError, or any list of results
RpcFailure == [failed |-> TRUE, results |-> <<>>]
UploadAnswers ==
    {RpcFailure} \cup
    {[failed |-> FALSE, results |-> r] :
        r \in SeqsUpTo([path : Names, error : RpcErrors], MaxBatch + 1)}
DownloadAnswers ==
    {RpcFailure} \cup
    {[failed |-> FALSE, results |-> r] :
        r \in SeqsUpTo([path : Names, content : RpcBytes, error : RpcErrors],
                       MaxBatch + 1)}

RpcCall(op, args, answer, result) ==
    [op |-> op, args |-> args, answer |-> answer, result |-> result]

InitRpc ==
    /\ fs = InitFiles
    /\ last = NoCall
    /\ prev = None
    /\ cpc = ConcIdle
    /\ creq = ConcIdle
    /\ cres = ConcIdle
    /\ NoInstance

UploadFiles(files, answer) ==
    /\ Idle
    /\ last' = RpcCall("upload_files", files, answer, upload_files(files, answer))
    /\ UNCHANGED <<fs, prev, cpc, creq, cres, grpcvars>>

DownloadFiles(paths, answer) ==
    /\ Idle
    /\ last' = RpcCall("download_files", paths, answer,
                       download_files(paths, answer))
    /\ UNCHANGED <<fs, prev, cpc, creq, cres, grpcvars>>

\* the caller takes the returned value and goes on to its next call
ResumeRpc ==
    /\ last.op # "none"
    /\ last' = NoCall
    /\ UNCHANGED <<fs, prev, cpc, creq, cres, grpcvars>>

NextRpc ==
    \/ Idle /\ \E files \in SeqsUpTo(Names \X RpcBytes, MaxBatch),
                  answer \in UploadAnswers : UploadFiles(files, answer)
    \/ Idle /\ \E paths \in SeqsUpTo(Names, MaxBatch),
                  answer \in DownloadAnswers : DownloadFiles(paths, answer)
    \/ ResumeRpc

SpecRpc == InitRpc /\ [][NextRpc]_vars

---------------------------------------------------------------------------
(* SpecGrpc: one caller of one GrpcSandbox instance, from its construction
   to its close(); every remote call is answered by the service or fails
   with grpc.RpcError, a stream possibly part-way through *)

\* id accesses, close() calls and streamed items that are followed
MaxAccess == 3
MaxClose == 2
MaxStream == 2

Endpoint == "localhost:50051"

\* the sandbox_id argument of the constructor, and the ids the service gives
GivenIds == {<<"given">>}
ServerIds == {<<"s1">>, <<"s2">>}

\* e.details() of a grpc.RpcError
RpcDetails == {"Connection failed"}

\* a call that raises grpc.RpcError, and a unary call that returns
RpcError(details) == [failed |-> TRUE, details |-> details]
RpcResponse(response) == [failed |-> FALSE, response |-> response]
RpcErrorAnswers == {RpcError(d) : d \in RpcDetails}

\* a server stream: the items it yields, then its end or a grpc.RpcError
StreamAnswers(Items) ==
    {[failed |-> f, details |-> d, items |-> s] :
        f \in BOOLEAN, d \in RpcDetails, s \in SeqsUpTo(Items, MaxStream)}

\* GrpcSandbox.__init__
GrpcSandbox(rpc_endpoint, sandbox_id) ==
    [rpc_endpoint |-> rpc_endpoint, channel |-> "channel",
     sandbox_id |-> sandbox_id]

\* GrpcSandbox._handle_rpc_error
handle_rpc_error(e, operation) ==
    <<"Error: RPC communication failed during ", operation, ": ", e.details>>

\* f"grpc-sandbox-{self._rpc_endpoint}"
FallbackId(rpc_endpoint) == <<"grpc-sandbox-", rpc_endpoint>>

\* a method's effect: the instance after it, the GetId requests it issued,
\* and what it hands its caller
Effect(self, GetId, result) == [inst |-> self, GetId |-> GetId, result |-> result]

\* GrpcSandbox.id
GrpcSandbox_id(self, answer) ==
    IF self.sandbox_id = None
    THEN IF ~answer.failed
         THEN Effect([self EXCEPT !.sandbox_id = Some(answer.response.id)], 1,
                     Returned(answer.response.id))
         ELSE Effect(self, 1, Returned(FallbackId(self.rpc_endpoint)))
    ELSE Effect(self, 0, Returned(self.sandbox_id[1]))

\* GrpcSandbox.read
GrpcSandbox_read(file_path, offset, limit, answer) ==
    IF ~answer.failed THEN Returned(answer.response.output)
    ELSE Returned(handle_rpc_error(answer, "read"))

\* GrpcSandbox.write without its except clause
GrpcSandbox_write_unguarded(file_path, content, answer) ==
    IF ~answer.failed
    THEN IF answer.response.error # ""
         THEN Returned(WriteResult(Some(answer.response.error), None))
         ELSE Returned(WriteResult(None, Some(answer.response.path)))
    ELSE Raised

\* GrpcSandbox.write
GrpcSandbox_write(file_path, content, answer) ==
    IF ~answer.failed
    THEN IF answer.response.error # ""
         THEN Returned(WriteResult(Some(answer.response.error), None))
         ELSE Returned(WriteResult(None, Some(answer.response.path)))
    ELSE Returned(WriteResult(Some(handle_rpc_error(answer, "write")), None))

\* GrpcSandbox.edit that copies response.occurrences whatever the response
GrpcSandbox_edit_counting(file_path, old_string, new_string, replace_all, answer) ==
    IF ~answer.failed
    THEN IF answer.response.error # ""
         THEN Returned(EditResult(Some(answer.response.error), None,
                                  Some(answer.response.occurrences)))
         ELSE Returned(EditResult(None, Some(answer.response.path),
                                  Some(answer.response.occurrences)))
    ELSE Returned(EditResult(Some(handle_rpc_error(answer, "edit")), None, None))

\* GrpcSandbox.edit
GrpcSandbox_edit(file_path, old_string, new_string, replace_all, answer) ==
    IF ~answer.failed
    THEN IF answer.response.error # ""
         THEN Returned(EditResult(Some(answer.response.error), None, None))
         ELSE Returned(EditResult(None, Some(answer.response.path),
                                  Some(answer.response.occurrences)))
    ELSE Returned(EditResult(Some(handle_rpc_error(answer, "edit")), None, None))

\* info: FileInfo = {"path": ..., "is_dir": ...}, with size and modified_at
\* when the item carries them
StreamedFileInfo(item) ==
    LET keys == {"path", "is_dir"}
                \cup (IF item.size # 0 THEN {"size"} ELSE {})
                \cup (IF item.modified_at # "" THEN {"modified_at"} ELSE {})
    IN  [k \in keys |-> item[k]]

\* GrpcSandbox.ls_info without its except clause
GrpcSandbox_ls_info_unguarded(path, answer) ==
    IF ~answer.failed
    THEN Returned([i \in 1..Len(answer.items) |-> StreamedFileInfo(answer.items[i])])
    ELSE Raised

\* GrpcSandbox.ls_info
GrpcSandbox_ls_info(path, answer) ==
    IF ~answer.failed
    THEN Returned([i \in 1..Len(answer.items) |-> StreamedFileInfo(answer.items[i])])
    ELSE Returned(<<>>)

\* GrpcSandbox.grep_raw
GrpcSandbox_grep_raw(pattern, path, glob, answer) ==
    IF ~answer.failed
    THEN Returned([i \in 1..Len(answer.items) |->
             [path |-> answer.items[i].path, line |-> answer.items[i].line,
              text |-> answer.items[i].text]])
    ELSE Returned(handle_rpc_error(answer, "grep"))

\* a glob_info that keeps what the stream gave before it failed
GrpcSandbox_glob_info_partial(pattern, path, answer) ==
    Returned([i \in 1..Len(answer.items) |-> StreamedFileInfo(answer.items[i])])

\* GrpcSandbox.glob_info
GrpcSandbox_glob_info(pattern, path, answer) ==
    IF ~answer.failed
    THEN Returned([i \in 1..Len(answer.items) |-> StreamedFileInfo(answer.items[i])])
    ELSE Returned(<<>>)

\* ExecuteResponse(output, exit_code, truncated) as GrpcSandbox builds it
RpcExecuteResponse(output, exit_code, truncated) ==
    [output |-> output, exit_code |-> exit_code, truncated |-> truncated]

\* GrpcSandbox.execute
GrpcSandbox_execute(command, answer) ==
    IF ~answer.failed
    THEN Returned(RpcExecuteResponse(answer.response.output,
                                     answer.response.exit_code,
                                     answer.response.truncated))
    ELSE Returned(RpcExecuteResponse(handle_rpc_error(answer, "execute"), 1, FALSE))

\* GrpcSandbox.close: the channel.close() calls it makes; a grpc.Channel is
\* always true, closed or not, and self._channel is never reset
GrpcSandbox_close(self) ==
    IF self.channel # "" THEN 1 ELSE 0

\* what the service answers
ReadResponses == [output : {<<>>, <<"     1", "\t", "a">>}]
WriteResponses == [error : RpcErrors, path : Names]
EditResponses == [error : RpcErrors, path : Names, occurrences : 0..2]
FileItems ==
    [path : {<<"p">>}, is_dir : BOOLEAN, size : {0, 1}, modified_at : {"", "t"}]
GrepItems == [path : {<<"p">>}, line : {1}, text : {<<>>, <<"a">>}]
ExecuteResponses == [output : {<<>>, <<"a">>}, exit_code : {0, 1}, truncated : BOOLEAN]
UnaryAnswers(Responses) == RpcErrorAnswers \cup {RpcResponse(r) : r \in Responses}

\* the answers to a batch of at most one file
OneUploadAnswers ==
    {RpcFailure} \cup
    {[failed |-> FALSE, results |-> r] :
        r \in SeqsUpTo([path : Names, error : RpcErrors], 1)}
OneDownloadAnswers ==
    {RpcFailure} \cup
    {[failed |-> FALSE, results |-> r] :
        r \in SeqsUpTo([path : Names, content : RpcBytes, error : RpcErrors], 1)}

\* the answer of a call that was not made
NoAnswer == [failed |-> FALSE]

InitGrpc ==
    /\ fs = InitFiles
    /\ last = NoCall
    /\ prev = None
    /\ cpc = ConcIdle
    /\ creq = ConcIdle
    /\ cres = ConcIdle
    /\ \E sandbox_id \in {None} \cup {Some(i) : i \in GivenIds} :
           inst = GrpcSandbox(Endpoint, sandbox_id)
    /\ chan = [GetId |-> 0, close |-> 0, calls |-> 0]
    /\ ids = <<>>
    /\ graph = <<>>

\* the instance is used until its first close()
Open == chan.calls = 0

\* one access of the id property
IdAccess(answer) ==
    /\ Idle
    /\ Open
    /\ Len(ids) < MaxAccess
    /\ LET e == GrpcSandbox_id(inst, answer) IN
       /\ inst' = e.inst
       /\ chan' = [chan EXCEPT !.GetId = @ + e.GetId]
       /\ ids' = Append(ids, e.result.value)
       /\ last' = RpcCall("GrpcSandbox.id", <<>>,
                          IF e.GetId = 0 THEN NoAnswer ELSE answer, e.result)
    /\ UNCHANGED <<fs, prev, cpc, creq, cres, graph>>

\* one call of close()
Close ==
    /\ Idle
    /\ chan.calls < MaxClose
    /\ chan' = [chan EXCEPT !.calls = @ + 1,
                            !.close = @ + GrpcSandbox_close(inst)]
    /\ last' = RpcCall("GrpcSandbox.close", <<>>, NoAnswer, Returned(None))
    /\ UNCHANGED <<fs, prev, cpc, creq, cres, inst, ids, graph>>

\* a call of one of the file operations, answered by the service
GrpcOp(op, args, answer, result) ==
    /\ Idle
    /\ Open
    /\ last' = RpcCall(op, args, answer, result)
    /\ UNCHANGED <<fs, prev, cpc, creq, cres, grpcvars>>

GrpcRead(file_path, offset, limit, answer) ==
    GrpcOp("GrpcSandbox.read",
           [file_path |-> file_path, offset |-> offset, limit |-> limit],
           answer, GrpcSandbox_read(file_path, offset, limit, answer))

GrpcWrite(file_path, content, answer) ==
    GrpcOp("GrpcSandbox.write", [file_path |-> file_path, content |-> content],
           answer, GrpcSandbox_write(file_path, content, answer))

GrpcEdit(file_path, old_string, new_string, replace_all, answer) ==
    GrpcOp("GrpcSandbox.edit",
           [file_path |-> file_path, old_string |-> old_string,
            new_string |-> new_string, replace_all |-> replace_all],
           answer,
           GrpcSandbox_edit(file_path, old_string, new_string, replace_all, answer))

GrpcLsInfo(path, answer) ==
    GrpcOp("GrpcSandbox.ls_info", [path |-> path], answer,
           GrpcSandbox_ls_info(path, answer))

GrpcGrepRaw(pattern, path, glob, answer) ==
    GrpcOp("GrpcSandbox.grep_raw",
           [pattern |-> pattern, path |-> path, glob |-> glob], answer,
           GrpcSandbox_grep_raw(pattern, path, glob, answer))

GrpcGlobInfo(pattern, path, answer) ==
    GrpcOp("GrpcSandbox.glob_info", [pattern |-> pattern, path |-> path], answer,
           GrpcSandbox_glob_info(pattern, path, answer))

GrpcExecute(command, answer) ==
    GrpcOp("GrpcSandbox.execute", [command |-> command], answer,
           GrpcSandbox_execute(command, answer))

GrpcUploadFiles(files, answer) ==
    GrpcOp("upload_files", files, answer, upload_files(files, answer))

GrpcDownloadFiles(paths, answer) ==
    GrpcOp("download_files", paths, answer, download_files(paths, answer))

\* the caller takes the returned value and goes on to its next call
ResumeGrpc ==
    /\ last.op # "none"
    /\ last' = NoCall
    /\ UNCHANGED <<fs, prev, cpc, creq, cres, grpcvars>>

NextGrpc ==
    \/ Idle /\ \E answer \in UnaryAnswers([id : ServerIds]) : IdAccess(answer)
    \/ Close
    \/ Idle /\ \E file_path \in Names, offset \in Offsets, limit \in Limits,
                  answer \in UnaryAnswers(ReadResponses) :
           GrpcRead(file_path, offset, limit, answer)
    \/ Idle /\ \E file_path \in Names, content \in EditStrings,
                  answer \in UnaryAnswers(WriteResponses) :
           GrpcWrite(file_path, content, answer)
    \/ Idle /\ \E file_path \in Names, old_string \in {<<"a">>},
                  new_string \in EditStrings, replace_all \in BOOLEAN,
                  answer \in UnaryAnswers(EditResponses) :
           GrpcEdit(file_path, old_string, new_string, replace_all, answer)
    \/ Idle /\ \E path \in Names, answer \in StreamAnswers(FileItems) :
           GrpcLsInfo(path, answer)
    \/ Idle /\ \E pattern \in {<<"a">>}, path \in {None, Some(<<"p">>)},
                  glob \in {None, Some(<<"*">>)},
                  answer \in StreamAnswers(GrepItems) :
           GrpcGrepRaw(pattern, path, glob, answer)
    \/ Idle /\ \E pattern \in {<<"*">>}, path \in {<<"/">>},
                  answer \in StreamAnswers(FileItems) :
           GrpcGlobInfo(pattern, path, answer)
    \/ Idle /\ \E command \in {<<"ls">>},
                  answer \in UnaryAnswers(ExecuteResponses) :
           GrpcExecute(command, answer)
    \/ Idle /\ \E files \in SeqsUpTo(Names \X {<<>>}, 1),
                  answer \in OneUploadAnswers : GrpcUploadFiles(files, answer)
    \/ Idle /\ \E paths \in SeqsUpTo(Names, 1),
                  answer \in OneDownloadAnswers : GrpcDownloadFiles(paths, answer)
    \/ ResumeGrpc

SpecGrpc == InitGrpc /\ [][NextGrpc]_vars

---------------------------------------------------------------------------
(* SpecResults: one caller writes and edits through a BaseSandbox and through
   a GrpcSandbox *)

\* a GrpcSandbox constructed without sandbox_id, and an empty BaseSandbox
InitResults == InitGrpc /\ inst.sandbox_id = None

\* the paths written and edited through the BaseSandbox
ResultPaths == {<<"p">>, <<"q", "'">>}

NextResults ==
    \/ Idle /\ \E file_path \in ResultPaths, content \in Contents :
           Write(file_path, content)
    \/ Idle /\ \E file_path \in ResultPaths, old_string \in EditStrings,
                  new_string \in EditStrings, replace_all \in BOOLEAN :
           Edit(file_path, old_string, new_string, replace_all)
    \/ Idle /\ \E file_path \in {<<"p">>}, content \in {<<"a">>},
                  answer \in UnaryAnswers(WriteResponses) :
           GrpcWrite(file_path, content, answer)
    \/ Idle /\ \E file_path \in {<<"p">>}, old_string \in {<<"a">>},
                  new_string \in {<<>>}, replace_all \in BOOLEAN,
                  answer \in UnaryAnswers(EditResponses) :
           GrpcEdit(file_path, old_string, new_string, replace_all, answer)
    \/ Resume

SpecResults == InitResults /\ [][NextResults]_vars

---------------------------------------------------------------------------
(* BaseSandbox.ls_info and glob_info: scripts that print one JSON line for
   each directory entry, and the parsing of those lines *)

\* the working directory of the sandbox, and the one (empty) directory in it
Cwd == <<".">>
Dirs == {<<"s">>}

\* what os.scandir('.') and glob.glob meet: the files that exist and the directories
Entries(fsys) == {n \in Names : fsys[n].exists} \cup Dirs

\* os.path.isdir(m), entry.is_dir()
IsDir(fsys, name) == name \in Dirs

\* stat.st_size: a file's length, a directory's block
DirSize == 4096
StatSize(fsys, name) == IF name \in Dirs THEN DirSize ELSE Len(fsys[name].data)

\* stat.st_mtime, as the clock of the sandbox had it
Stamps == {1, 2}
FloatRepr(t) == ToString(t) \o ".0"

\* the pieces of a line that json.dumps prints
JsonPathKey == "{\"path\": \""
JsonQuote == "\""
JsonSizeKey == ", \"size\": "
JsonMtimeKey == ", \"mtime\": "
JsonIsDirKey == ", \"is_dir\": "
JsonClose == "}"

\* a character inside a JSON string
JsonEscape(c) ==
    CASE c = "\"" -> "\\\""
      [] c = "\n" -> "\\n"
      [] c = "\t" -> "\\t"
      [] OTHER -> c
JsonUnescape(c) ==
    CASE c = "\\\"" -> "\""
      [] c = "\\n" -> "\n"
      [] c = "\\t" -> "\t"
      [] OTHER -> c

JsonString(s) == <<JsonQuote>> \o [i \in 1..Len(s) |-> JsonEscape(s[i])]
JsonBool(b) == IF b THEN "true" ELSE "false"

\* json.dumps({'path': ..., 'is_dir': ...}) of the ls script
JsonDumpsEntry(path, is_dir) ==
    <<JsonPathKey>> \o Tail(JsonString(path))
        \o <<JsonQuote, JsonIsDirKey, JsonBool(is_dir), JsonClose>>

\* json.dumps({'path': ..., 'size': ..., 'mtime': ..., 'is_dir': ...}) of the
\* glob script
JsonDumpsStat(path, size, mtime, is_dir) ==
    <<JsonPathKey>> \o Tail(JsonString(path))
        \o <<JsonQuote, JsonSizeKey, ToString(size), JsonMtimeKey, FloatRepr(mtime),
             JsonIsDirKey, JsonBool(is_dir), JsonClose>>

\* the numbers a line can carry
JsonSizes == (0..MaxLen) \cup {DirSize}
IsJsonInt(token) == \E n \in JsonSizes : ToString(n) = token
JsonInt(token) == CHOOSE n \in JsonSizes : ToString(n) = token
IsJsonFloat(token) == \E t \in Stamps : FloatRepr(t) = token
JsonFloat(token) == CHOOSE t \in Stamps : FloatRepr(t) = token

\* index of the first closing quote of line after its first token, 0 when none
FirstQuote(line) ==
    IF \E i \in 2..Len(line) : line[i] = JsonQuote
    THEN CHOOSE i \in 2..Len(line) :
             line[i] = JsonQuote /\ \A j \in 2..(i - 1) : line[j] # JsonQuote
    ELSE 0

\* json.loads(line): the object the line spells, None for JSONDecodeError
JsonLoads(line) ==
    LET n == Len(line)
        q == FirstQuote(line)
        path == [i \in 1..(q - 2) |-> JsonUnescape(line[i + 1])]
    IN  IF n < 5 \/ line[1] # JsonPathKey \/ q = 0 \/ line[n] # JsonClose
           \/ line[n - 1] \notin {"true", "false"} \/ line[n - 2] # JsonIsDirKey
        THEN None
        ELSE IF q = n - 3
        THEN Some([path |-> path, is_dir |-> line[n - 1] = "true"])
        ELSE IF /\ q = n - 7
                /\ line[q + 1] = JsonSizeKey /\ IsJsonInt(line[q + 2])
                /\ line[q + 3] = JsonMtimeKey /\ IsJsonFloat(line[q + 4])
        THEN Some([path |-> path, size |-> JsonInt(line[q + 2]),
                   mtime |-> JsonFloat(line[q + 4]), is_dir |-> line[n - 1] = "true"])
        ELSE None

\* text.split("\n")
RECURSIVE SplitLines(_)
SplitLines(text) ==
    LET k == FirstNewline(text) IN
    IF k = 0 THEN <<text>>
    ELSE <<SubSeq(text, 1, k - 1)>> \o SplitLines(SubSeq(text, k + 1, Len(text)))

\* print(line) for each line of lines
RECURSIVE PrintLines(_)
PrintLines(lines) ==
    IF lines = <<>> THEN <<>>
    ELSE Head(lines) \o <<"\n">> \o PrintLines(Tail(lines))

\* what a python3 -c process leaves: its standard output, its standard error
\* and its exit code
Process(stdout, stderr, exit_code) ==
    [stdout |-> stdout, stderr |-> stderr, exit_code |-> exit_code]

\* command 2>/dev/null
DropStderr(fsys, process) == ExecuteResponse(fsys, process.stdout, process.exit_code)

NotADirectoryText == "NotADirectoryError: [Errno 20] Not a directory"

\* the orders in which os.scandir can yield the entries
Orders(entries) ==
    {order \in [1..Cardinality(entries) -> entries] :
        \A i, j \in 1..Cardinality(entries) : i # j => order[i] # order[j]}

\* the python3 -c script of ls_info: path is written into the source between
\* quotes; scandir yields the entries in the order the directory gives them
LsPython(fsys, path, order, denied) ==
    IF ~ScriptCompiles(path) THEN Process(<<>>, <<SyntaxErrorText, "\n">>, 1)
    ELSE IF path = Cwd \/ path \in Dirs
    THEN IF denied THEN Process(<<>>, <<>>, 0)
         ELSE LET found == IF path = Cwd THEN order ELSE <<>> IN
              Process(PrintLines([i \in 1..Len(found) |->
                          JsonDumpsEntry(found[i], IsDir(fsys, found[i]))]),
                      <<>>, 0)
    ELSE IF PathExists(fsys, path)
    THEN Process(<<>>, <<NotADirectoryText, "\n">>, UncaughtExit)
    ELSE Process(<<>>, <<>>, 0)

\* the ls command: the script with 2>/dev/null
LsScript(fsys, path, order, denied) ==
    DropStderr(fsys, LsPython(fsys, path, order, denied))

\* the for loop over the lines of an output: the lines that parse, in order
RECURSIVE ParsedLines(_)
ParsedLines(lines) ==
    IF lines = <<>> THEN <<>>
    ELSE (IF Head(lines) # <<>> /\ JsonLoads(Head(lines)) # None
          THEN <<JsonLoads(Head(lines))[1]>> ELSE <<>>)
         \o ParsedLines(Tail(lines))

\* file_infos.append({"path": data["path"], "is_dir": data["is_dir"]})
FileInfo(data) == [path |-> data.path, is_dir |-> data.is_dir]

\* BaseSandbox.ls_info
ls_info(fsys, path, order, denied) ==
    LET cmd == [script |-> "ls", path |-> path]
        result == LsScript(fsys, cmd.path, order, denied)
        parsed == ParsedLines(SplitLines(Strip(result.output)))
    IN  [fs |-> result.fs,
         value |-> [i \in 1..Len(parsed) |-> FileInfo(parsed[i])],
         commands |-> <<cmd>>]

\* a < b for Python strings: by code point, a proper prefix first
RECURSIVE StrLess(_, _)
StrLess(a, b) ==
    IF b = <<>> THEN FALSE
    ELSE IF a = <<>> THEN TRUE
    ELSE IF Ord(Head(a)) # Ord(Head(b)) THEN Ord(Head(a)) < Ord(Head(b))
    ELSE StrLess(Tail(a), Tail(b))

\* sorted(names)
RECURSIVE Sorted(_)
Sorted(names) ==
    IF names = {} THEN <<>>
    ELSE LET least == CHOOSE x \in names : \A y \in names \ {x} : StrLess(x, y)
         IN  <<least>> \o Sorted(names \ {least})

\* fnmatch of one path component: * is any run of characters, ? any one
RECURSIVE FnMatch(_, _)
FnMatch(pattern, name) ==
    IF pattern = <<>> THEN name = <<>>
    ELSE IF Head(pattern) = "*"
    THEN FnMatch(Tail(pattern), name)
         \/ (name # <<>> /\ FnMatch(pattern, Tail(name)))
    ELSE IF name = <<>> THEN FALSE
    ELSE (Head(pattern) = "?" \/ Head(pattern) = Head(name))
         /\ FnMatch(Tail(pattern), Tail(name))

\* the python3 -c script of glob_info: both parameters arrive base64-encoded
GlobPython(fsys, path_b64, pattern_b64, mtime) ==
    LET path == Utf8Decode(B64Decode(path_b64))
        pattern == Utf8Decode(B64Decode(pattern_b64))
        entries == IF path = Cwd THEN Entries(fsys) ELSE {}
        matches == Sorted({m \in entries : FnMatch(pattern, m)})
    IN  IF path = Cwd \/ path \in Dirs
        THEN Process(PrintLines([i \in 1..Len(matches) |->
                         JsonDumpsStat(matches[i], StatSize(fsys, matches[i]), mtime,
                                       IsDir(fsys, matches[i]))]),
                     <<>>, 0)
        ELSE IF PathExists(fsys, path)
        THEN Process(<<>>, <<NotADirectoryText, "\n">>, UncaughtExit)
        ELSE Process(<<>>, <<NoSuchFileText, "\n">>, UncaughtExit)

\* the glob command: the script with 2>/dev/null
GlobScript(fsys, path_b64, pattern_b64, mtime) ==
    DropStderr(fsys, GlobPython(fsys, path_b64, pattern_b64, mtime))

\* BaseSandbox.glob_info
glob_info(fsys, pattern, path, mtime) ==
    LET pattern_b64 == B64Encode(Utf8Encode(pattern))
        path_b64 == B64Encode(Utf8Encode(path))
        cmd == [script |-> "glob", path_b64 |-> path_b64, pattern_b64 |-> pattern_b64]
        result == GlobScript(fsys, cmd.path_b64, cmd.pattern_b64, mtime)
        output == Strip(result.output)
        parsed == IF output = <<>> THEN <<>> ELSE ParsedLines(SplitLines(output))
    IN  [fs |-> result.fs,
         value |-> [i \in 1..Len(parsed) |-> FileInfo(parsed[i])],
         commands |-> <<cmd>>]

(* BaseSandbox.grep_raw: a grep command line, and the parsing of what it prints *)

\* the characters shlex.quote leaves as they are
ShlexSafe == {"a", "d", "p", "q", "s", ".", ":"}

\* s.replace("'", "'\"'\"'")
RECURSIVE ShlexEscape(_)
ShlexEscape(s) ==
    IF s = <<>> THEN <<>>
    ELSE (IF Head(s) = "'" THEN <<"'", "\"", "'", "\"", "'">> ELSE <<Head(s)>>)
         \o ShlexEscape(Tail(s))

\* shlex.quote(s)
ShlexQuote(s) ==
    IF s = <<>> THEN <<"'", "'">>
    ELSE IF \A i \in 1..Len(s) : s[i] \in ShlexSafe THEN s
    ELSE <<"'">> \o ShlexEscape(s) \o <<"'">>

\* the shell reading one word: quote is "" outside quotes, else the open quote
RECURSIVE ShellWord(_, _, _)
ShellWord(word, quote, acc) ==
    IF word = <<>> THEN (IF quote = "" THEN Some(acc) ELSE None)
    ELSE IF quote = ""
    THEN IF Head(word) \in {"'", "\""}
         THEN ShellWord(Tail(word), Head(word), acc)
         ELSE ShellWord(Tail(word), quote, acc \o <<Head(word)>>)
    ELSE IF Head(word) = quote
         THEN ShellWord(Tail(word), "", acc)
         ELSE ShellWord(Tail(word), quote, acc \o <<Head(word)>>)

\* BaseSandbox.grep_raw, up to execute(): the words of the command it builds
GrepCommand(pattern, path, glob) ==
    [script |-> "grep",
     include |-> IF glob # None /\ glob[1] # <<>>
                 THEN Some(<<"'">> \o glob[1] \o <<"'">>) ELSE None,
     pattern_escaped |-> ShlexQuote(pattern),
     search_path |-> ShlexQuote(IF path # None /\ path[1] # <<>>
                                THEN path[1] ELSE Cwd)]

\* a file of the working directory whose name holds a colon
ColonName == <<"a", ":", "b">>
ColonText == <<"a", "\n">>

\* the files grep -r meets under the working directory
GrepNames(fsys, colon) ==
    {n \in Names : fsys[n].exists} \cup (IF colon THEN {ColonName} ELSE {})
GrepText(fsys, name) == IF name = ColonName THEN ColonText ELSE fsys[name].data

\* the lines of text in which pattern occurs, each as <file>:<number>:<line>
GrepFile(file, text, pattern) ==
    LET lines == ReadLines(text)
        hits == SelectSeq([i \in 1..Len(lines) |-> i],
                    LAMBDA i : \E k \in 1..(Len(lines[i]) + 1) :
                                   MatchAt(RStripChars(lines[i], {"\n"}), pattern, k))
    IN  [j \in 1..Len(hits) |->
            file \o <<":", ToString(hits[j]), ":">>
                 \o RStripChars(lines[hits[j]], {"\n"})]

RECURSIVE Concat(_)
Concat(seqs) == IF seqs = <<>> THEN <<>> ELSE Head(seqs) \o Concat(Tail(seqs))

\* the shell's message for a command line it cannot read
ShellSyntaxLine ==
    <<"sh", ":", " ", "1", ":", " ", "Syntax error: Unterminated quoted string">>

\* execute() of the grep command: env says whether grep is installed, whether
\* the file with the colon is there, in which order grep walks the directory,
\* and whether the shell's own message is part of the output
GrepScript(fsys, cmd, env) ==
    LET include == IF cmd.include = None THEN Some(<<"*">>)
                   ELSE ShellWord(cmd.include[1], "", <<>>)
        pattern == ShellWord(cmd.pattern_escaped, "", <<>>)
        search_path == ShellWord(cmd.search_path, "", <<>>)
        files == SelectSeq(env.order, LAMBDA n : FnMatch(include[1], n))
    IN  IF include = None \/ pattern = None \/ search_path = None
        THEN ExecuteResponse(fsys, IF env.merged THEN ShellSyntaxLine \o <<"\n">>
                                   ELSE <<>>, 2)
        ELSE IF ~env.installed \/ search_path[1] # Cwd
        THEN ExecuteResponse(fsys, <<>>, 0)
        ELSE ExecuteResponse(fsys,
                 PrintLines(Concat([i \in 1..Len(files) |->
                     GrepFile(<<".", "/">> \o files[i], GrepText(fsys, files[i]),
                              pattern[1])])),
                 0)

\* index of the first ":" of line, 0 when there is none
FirstColon(line) ==
    IF \E i \in 1..Len(line) : line[i] = ":"
    THEN CHOOSE i \in 1..Len(line) :
             line[i] = ":" /\ \A j \in 1..(i - 1) : line[j] # ":"
    ELSE 0

\* line.split(":", 2)
SplitColon(line) ==
    LET first == FirstColon(line) IN
    IF first = 0 THEN <<line>>
    ELSE LET rest == SubSeq(line, first + 1, Len(line))
             second == FirstColon(rest)
         IN  IF second = 0 THEN <<SubSeq(line, 1, first - 1), rest>>
             ELSE <<SubSeq(line, 1, first - 1), SubSeq(rest, 1, second - 1),
                    SubSeq(rest, second + 1, Len(rest))>>

\* the line numbers grep can print
MaxLineNumber == MaxLen + 1
LineNumbers == 1..MaxLineNumber

\* int(parts[1]): defined on the spellings of numbers, ValueError elsewhere
IsIntText(text) == \E n \in LineNumbers : Strip(text) = <<ToString(n)>>
IntOfText(text) == CHOOSE n \in LineNumbers : Strip(text) = <<ToString(n)>>

\* the loop over the lines of grep's output; a ValueError ends it
RECURSIVE GrepMatches(_, _)
GrepMatches(lines, matches) ==
    IF lines = <<>> THEN Returned(matches)
    ELSE LET parts == SplitColon(Head(lines)) IN
         IF Len(parts) < 3 THEN GrepMatches(Tail(lines), matches)
         ELSE IF ~IsIntText(parts[2]) THEN Raised
         ELSE GrepMatches(Tail(lines),
                  Append(matches, [path |-> parts[1], line |-> IntOfText(parts[2]),
                                   text |-> parts[3]]))

\* BaseSandbox.grep_raw
grep_raw(fsys, pattern, path, glob, env) ==
    LET cmd == GrepCommand(pattern, path, glob)
        result == GrepScript(fsys, cmd, env)
        output == RStrip(result.output)
    IN  [fs |-> result.fs,
         value |-> IF output = <<>> THEN Returned(<<>>)
                   ELSE GrepMatches(SplitLines(output), <<>>),
         commands |-> <<cmd>>]

(* SpecDir: one BaseSandbox and one GrpcSandbox whose directories are listed *)

\* the paths given to BaseSandbox.ls_info: the working directory, the empty
\* directory, a path that may name a file, and two that name nothing
LsPaths == {Cwd, <<"s">>, <<"p">>, <<"d">>, <<"d", "'">>}

DirContents == {<<>>, <<"a">>}

LsInfo(path, order, denied) ==
    /\ Idle
    /\ LET r == ls_info(fs, path, order, denied) IN
       /\ fs' = r.fs
       /\ last' = Call("ls_info", path, [order |-> order, denied |-> denied],
                       r.commands, r.value)
    /\ prev' = None
    /\ UNCHANGED <<cpc, creq, cres, grpcvars>>

\* the patterns and base paths given to BaseSandbox.glob_info
GlobPatterns == {<<"*">>, <<"p">>, <<"*", "'">>}
GlobPaths == {Cwd, <<"s">>, <<"d">>}

GlobInfo(pattern, path, mtime) ==
    /\ Idle
    /\ LET r == glob_info(fs, pattern, path, mtime) IN
       /\ fs' = r.fs
       /\ last' = Call("glob_info", path, [pattern |-> pattern, mtime |-> mtime],
                       r.commands, r.value)
    /\ prev' = None
    /\ UNCHANGED <<cpc, creq, cres, grpcvars>>

NextDir ==
    \/ Idle /\ \E file_path \in Names, content \in DirContents :
           Write(file_path, content)
    \/ Idle /\ \E path \in LsPaths, order \in Orders(Entries(fs)), denied \in BOOLEAN :
           LsInfo(path, order, denied)
    \/ Idle /\ \E pattern \in GlobPatterns, path \in GlobPaths, mtime \in Stamps :
           GlobInfo(pattern, path, mtime)
    \/ Idle /\ \E path \in {<<"d">>}, answer \in StreamAnswers(FileItems) :
           GrpcLsInfo(path, answer)
    \/ Resume

SpecDir == InitResults /\ [][NextDir]_vars

---------------------------------------------------------------------------
(* SpecRead: reads of a sandbox that already holds files, one of them with the
   text of the not-found marker on its first line *)

\* the files the sandbox may hold at the start
ReadFiles == {NoFile, File(<<>>), File(<<"a">>), File(<<NotFoundMarker, "\n">>)}

InitRead ==
    /\ fs \in [Names -> ReadFiles]
    /\ Fits(fs)
    /\ last = NoCall
    /\ prev = None
    /\ cpc = ConcIdle
    /\ creq = ConcIdle
    /\ cres = ConcIdle
    /\ NoInstance

NextRead ==
    \/ Idle /\ \E file_path \in Paths, offset \in Offsets, limit \in Limits :
           Read(file_path, offset, limit)
    \/ Resume

SpecRead == InitRead /\ [][NextRead]_vars

---------------------------------------------------------------------------
(* SpecOps: one caller and all six operations of a BaseSandbox *)

GrepPatterns == {<<"a">>, <<"'">>}
GrepPaths == {None, Some(<<"d">>)}
GrepGlobs == {None, Some(<<"*">>), Some(<<"'">>)}

\* what a run of the grep command meets in the sandbox
GrepEnvs(fsys) ==
    {[installed |-> i, merged |-> m, order |-> o] :
        i \in BOOLEAN, m \in BOOLEAN,
        o \in UNION {Orders(GrepNames(fsys, colon)) : colon \in BOOLEAN}}

GrepRaw(pattern, path, glob, env) ==
    /\ Idle
    /\ LET r == grep_raw(fs, pattern, path, glob, env) IN
       /\ fs' = r.fs
       /\ last' = Call("grep_raw", IF path = None THEN Cwd ELSE path[1],
                       [pattern |-> pattern, path |-> path, glob |-> glob,
                        env |-> env], r.commands, r.value)
    /\ prev' = None
    /\ UNCHANGED <<cpc, creq, cres, grpcvars>>

NextOps ==
    \/ Idle /\ \E file_path \in Paths, content \in DirContents :
           Write(file_path, content)
    \/ Idle /\ \E file_path \in Paths \cup {RemovingPath(n) : n \in Names},
                  offset \in Offsets, limit \in Limits :
           Read(file_path, offset, limit)
    \/ Idle /\ \E file_path \in Paths, old_string \in EditStrings,
                  new_string \in EditStrings, replace_all \in BOOLEAN :
           Edit(file_path, old_string, new_string, replace_all)
    \/ Idle /\ \E path \in LsPaths, order \in Orders(Entries(fs)), denied \in BOOLEAN :
           LsInfo(path, order, denied)
    \/ Idle /\ \E pattern \in GlobPatterns, path \in GlobPaths, mtime \in Stamps :
           GlobInfo(pattern, path, mtime)
    \/ Idle /\ \E pattern \in GrepPatterns, path \in GrepPaths, glob \in GrepGlobs,
                  env \in GrepEnvs(fs) :
           GrepRaw(pattern, path, glob, env)
    \/ Resume

SpecOps == Init /\ [][NextOps]_vars

---------------------------------------------------------------------------
(* SpecGraph: graph.py is imported statement by statement, and once it is
   loaded its functions are called *)

PROACTIVE_SUMMARY_THRESHOLD == 45000
DEFAULT_CONTEXT_MESSAGES_TO_KEEP == 6

\* an exception of the type named
RaisedError(type) == [raised |-> TRUE, value |-> type]

\* the middleware objects, by their type and constructor arguments
TodoListMiddleware == [type |-> "TodoListMiddleware"]
FilesystemMiddleware(backend) == [type |-> "FilesystemMiddleware", backend |-> backend]
SummarizationMiddleware(model, trigger, keep) ==
    [type |-> "SummarizationMiddleware", model |-> model, trigger |-> trigger,
     keep |-> keep, trim_tokens_to_summarize |-> None]
AnthropicPromptCachingMiddleware ==
    [type |-> "AnthropicPromptCachingMiddleware",
     unsupported_model_behavior |-> "ignore"]
PatchToolCallsMiddleware == [type |-> "PatchToolCallsMiddleware"]

\* def _create_core_middleware(model, trigger, keep), the first of the two
create_core_middleware_summary(args) ==
    IF Len(args) # 3 THEN RaisedError("TypeError")
    ELSE Returned(<<SummarizationMiddleware(args[1], args[2], args[3]),
                    AnthropicPromptCachingMiddleware, PatchToolCallsMiddleware>>)

\* def _create_core_middleware(model, backend=None), the second of the two
create_core_middleware_stack(args) ==
    IF Len(args) \notin {1, 2} THEN RaisedError("TypeError")
    ELSE LET backend == IF Len(args) = 2 THEN args[2] ELSE None IN
         Returned(<<TodoListMiddleware, FilesystemMiddleware(backend),
                    SummarizationMiddleware(args[1],
                        <<"tokens", PROACTIVE_SUMMARY_THRESHOLD>>,
                        <<"messages", DEFAULT_CONTEXT_MESSAGES_TO_KEEP>>),
                    AnthropicPromptCachingMiddleware, PatchToolCallsMiddleware>>)

\* the statements of the module after its imports, in order
Statements ==
    <<"constants", "def _create_core_middleware (1)", "def get_default_model",
      "def _create_core_middleware (2)", "def create_deep_agent">>

\* the names a statement uses when it is executed; a def evaluates the
\* annotations of its parameters unless the interpreter defers them
UsedNames(statement, lazy) ==
    IF statement = "def _create_core_middleware (2)" /\ ~lazy
    THEN {"BaseChatModel", "BackendProtocol", "BackendFactory", "AgentMiddleware"}
    ELSE IF statement \in {"def _create_core_middleware (1)",
                           "def _create_core_middleware (2)"}
    THEN IF lazy THEN {} ELSE {"BaseChatModel", "AgentMiddleware"}
    ELSE {}

\* the names the import statements bind
Imported ==
    {"create_agent", "HumanInTheLoopMiddleware", "InterruptOnConfig",
     "TodoListMiddleware", "SummarizationMiddleware", "AgentMiddleware",
     "ResponseFormat", "ChatAnthropic", "AnthropicPromptCachingMiddleware",
     "BaseChatModel", "BaseTool", "BaseCache", "CompiledStateGraph", "BaseStore",
     "Checkpointer", "FilesystemMiddleware", "PatchToolCallsMiddleware",
     "CompiledSubAgent", "SubAgent", "SubAgentMiddleware", "RedisCache",
     "RedisSettings", "RedisStore", "create_redis_client"}

\* the function a def statement binds to the name _create_core_middleware
Defines(statement) ==
    CASE statement = "def _create_core_middleware (1)" -> Some("summary")
      [] statement = "def _create_core_middleware (2)" -> Some("stack")
      [] OTHER -> None

\* the module after the statement at pc
Execute(module) ==
    LET statement == Statements[module.pc] IN
    IF ~(UsedNames(statement, module.lazy) \subseteq module.names)
    THEN [module EXCEPT !.raised = Some("NameError")]
    ELSE [module EXCEPT
             !.pc = @ + 1,
             !.names = @ \cup (IF statement = "constants"
                               THEN {"PROACTIVE_SUMMARY_THRESHOLD",
                                     "DEFAULT_CONTEXT_MESSAGES_TO_KEEP"}
                               ELSE {}),
             !.core = IF Defines(statement) # None THEN Defines(statement) ELSE @]

\* the import ran to its end
Loaded(module) == module.pc > Len(Statements) /\ module.raised = None

\* _create_core_middleware(*args) as the module has the name bound
create_core_middleware(module, args) ==
    IF module.core = Some("stack") THEN create_core_middleware_stack(args)
    ELSE create_core_middleware_summary(args)

\* what create_deep_agent knows of a model: whether it has a profile, and of
\* which kind
Profiles ==
    {"no attribute", "None", "not a dict", "dict without max_input_tokens",
     "dict with str max_input_tokens", "dict with int max_input_tokens"}

\* get_default_model()
DefaultModel ==
    [model_name |-> "claude-sonnet-4-5-20250929", profile |-> "no attribute"]

\* create_deep_agent, up to the first exception: the trigger and keep it
\* chooses, the core stack it asks for, and the two stacks it builds
create_deep_agent(module, model, interrupt_on) ==
    LET m == IF model = None THEN DefaultModel ELSE model[1]
        fraction == m.profile = "dict with int max_input_tokens"
        trigger == IF fraction THEN <<"fraction", "0.85">>
                   ELSE <<"tokens", PROACTIVE_SUMMARY_THRESHOLD>>
        keep == IF fraction THEN <<"fraction", "0.10">>
                ELSE <<"messages", DEFAULT_CONTEXT_MESSAGES_TO_KEEP>>
        core_middleware_stack == create_core_middleware(module, <<m, trigger, keep>>)
    IN  IF core_middleware_stack.raised THEN core_middleware_stack
        ELSE IF "backend" \notin module.names THEN RaisedError("NameError")
        ELSE LET subagent_middleware_stack ==
                     <<TodoListMiddleware, FilesystemMiddleware("backend")>>
                         \o core_middleware_stack.value
                 deepagent_middleware ==
                     <<TodoListMiddleware, FilesystemMiddleware("backend"),
                       [type |-> "SubAgentMiddleware",
                        default_middleware |-> subagent_middleware_stack]>>
                         \o core_middleware_stack.value
                         \o (IF interrupt_on # None
                             THEN <<[type |-> "HumanInTheLoopMiddleware"]>>
                             ELSE <<>>)
             IN  IF "store_to_use" \notin module.names THEN RaisedError("NameError")
                 ELSE Returned([middleware |-> deepagent_middleware])

\* the values given as positional arguments to _create_core_middleware
CoreArgs ==
    {<<"model", "m">>, <<"backend", "b">>,
     <<"tokens", PROACTIVE_SUMMARY_THRESHOLD>>,
     <<"messages", DEFAULT_CONTEXT_MESSAGES_TO_KEEP>>, <<"fraction", "0.85">>}

GraphModels ==
    {None} \cup {Some([model_name |-> "m", profile |-> p]) : p \in Profiles}

\* the interpreter either evaluates annotations at each def or defers them
InitGraph ==
    /\ fs = InitFiles
    /\ last = NoCall
    /\ prev = None
    /\ cpc = ConcIdle
    /\ creq = ConcIdle
    /\ cres = ConcIdle
    /\ inst = <<>>
    /\ chan = <<>>
    /\ ids = <<>>
    /\ \E lazy \in BOOLEAN :
           graph = [lazy |-> lazy, pc |-> 1, names |-> Imported, core |-> None,
                    raised |-> None]

\* import deepagents.graph: the next statement of the module
Import ==
    /\ Idle
    /\ graph.pc <= Len(Statements)
    /\ graph.raised = None
    /\ graph' = Execute(graph)
    /\ UNCHANGED <<fs, last, prev, cpc, creq, cres, inst, chan, ids>>

GraphCall(op, args, result) ==
    /\ Idle
    /\ Loaded(graph)
    /\ last' = [op |-> op, args |-> args, result |-> result]
    /\ UNCHANGED <<fs, prev, cpc, creq, cres, grpcvars>>

CreateCoreMiddleware(args) ==
    GraphCall("_create_core_middleware", args, create_core_middleware(graph, args))

CreateDeepAgent(model, interrupt_on) ==
    GraphCall("create_deep_agent", [model |-> model, interrupt_on |-> interrupt_on],
              create_deep_agent(graph, model, interrupt_on))

NextGraph ==
    \/ Import
    \/ Idle /\ \E n \in 1..3 : \E args \in [1..n -> CoreArgs] :
           CreateCoreMiddleware(args)
    \/ Idle /\ \E model \in GraphModels, interrupt_on \in {None, Some("interrupts")} :
           CreateDeepAgent(model, interrupt_on)
    \/ Resume

SpecGraph == InitGraph /\ [][NextGraph]_vars

---------------------------------------------------------------------------
---------------------------------------------------------------------------
(* What the claims speak of, stated apart from the code's own operators *)

\* the file a path names, before and after the call in `last`
FileAt(fsys, file_path) == IF file_path \in Names THEN fsys[file_path] ELSE NoFile
BeforeText == FileAt(last.before, last.file_path).data
BeforeExists == FileAt(last.before, last.file_path).exists
AfterText == FileAt(fs, last.file_path).data

\* the first place where sub occurs in text, 0 when it does not
FirstOccurrence(text, sub) ==
    IF \E i \in 1..(Len(text) + 1) : MatchAt(text, sub, i)
    THEN CHOOSE i \in 1..(Len(text) + 1) :
             MatchAt(text, sub, i) /\ \A j \in 1..(i - 1) : ~MatchAt(text, sub, j)
    ELSE 0

\* the pieces of text between the occurrences of a non-empty sub, left to right
RECURSIVE SplitOn(_, _)
SplitOn(text, sub) ==
    LET k == FirstOccurrence(text, sub) IN
    IF k = 0 THEN <<text>>
    ELSE <<SubSeq(text, 1, k - 1)>>
         \o SplitOn(SubSeq(text, k + Len(sub), Len(text)), sub)

\* the pieces between the occurrences of old; the empty string occurs before
\* every character and at the end
Pieces(text, old) ==
    IF old = <<>>
    THEN <<old>> \o [i \in 1..Len(text) |-> <<text[i]>>] \o <<old>>
    ELSE SplitOn(text, old)

RECURSIVE Join(_, _)
Join(pieces, sep) ==
    IF Len(pieces) = 1 THEN pieces[1]
    ELSE pieces[1] \o sep \o Join(Tail(pieces), sep)

\* old occurs at two places of text that do not overlap
OccursTwice(text, old) ==
    \E i, j \in 1..(Len(text) + 1) :
        i < j /\ i + Len(old) <= j /\ MatchAt(text, old, i) /\ MatchAt(text, old, j)

Occurs(text, old) == \E i \in 1..(Len(text) + 1) : MatchAt(text, old, i)

\* the lines of a text: what stands between its line ends
TextLines(text) ==
    LET pieces == SplitOn(text, <<"\n">>) IN
    IF pieces[Len(pieces)] = <<>> THEN SubSeq(pieces, 1, Len(pieces) - 1)
    ELSE pieces

\* a line of read's answer without its line-number prefix
LineText(line) ==
    IF Len(line) >= 2 /\ line[2] = "\t" THEN SubSeq(line, 3, Len(line)) ELSE <<>>

\* the lines of read's answer
AnswerLines(answer) == IF answer = <<>> THEN <<>> ELSE SplitOn(answer, <<"\n">>)

\* the read in `last` follows a successful write of non-empty content to its path
ReadAfterWrite ==
    /\ last.op = "read"
    /\ last.follows # None
    /\ last.follows[1].file_path = last.file_path
    /\ last.follows[1].content # <<>>

---------------------------------------------------------------------------
(* The claims *)

ConcSuccess(c) == cres[c] # None /\ cres[c][1].path # None

C2_AtomicWrite ==
    \A c, d \in Callers :
        (/\ c # d
         /\ cpc[c] = "returned"
         /\ cpc[d] = "returned"
         /\ creq[c].file_path = creq[d].file_path)
        => /\ ~(ConcSuccess(c) /\ ConcSuccess(d))
           /\ ConcSuccess(c) => fs[creq[c].file_path].data = creq[c].content

\* C3: read(p) after a successful write(p, content) returns the lines of
\* content, one numbered line each, so that content is reproduced once the
\* prefixes are removed.
C3_RoundTrip ==
    (/\ ReadAfterWrite
     /\ last.args.offset = DefaultOffset
     /\ last.args.limit = DefaultLimit)
    => LET lines == AnswerLines(last.result) IN
       [i \in 1..Len(lines) |-> LineText(lines[i])]
           = TextLines(last.follows[1].content)

\* C4: the k-th line of read(p, offset, limit) after write(p, content) carries
\* the line number offset + k and the text of line offset + k of content.
C4_SequentialNumbers ==
    ReadAfterWrite
    => LET lines == AnswerLines(last.result)
           content == TextLines(last.follows[1].content)
       IN  \A k \in 1..Len(lines) :
               /\ lines[k][1] = Fmt6d(last.args.offset + k)
               /\ last.args.offset + k <= Len(content)
               /\ LineText(lines[k]) = content[last.args.offset + k]

\* C5: edit with replace_all=false on a file in which old occurs twice or more
\* returns the 'appears multiple times' error and leaves the file as it was.
C5_AmbiguousEditRefused ==
    (/\ last.op = "edit"
     /\ ~last.args.replace_all
     /\ BeforeExists
     /\ OccursTwice(BeforeText, last.args.old_string))
    => /\ last.result = EditResult(
              Some(MultipleOccurrencesError(last.args.old_string)), None, None)
       /\ fs = last.before

C5_Witness ==
    /\ last.op = "edit"
    /\ ~last.args.replace_all
    /\ BeforeExists
    /\ OccursTwice(BeforeText, last.args.old_string)
    /\ last.args.old_string # <<>>
    /\ last.result.error # None

\* C6: a successful edit reports the replacements it made: with replace_all
\* every occurrence of old is replaced by new and occurrences is their number;
\* without it old occurred exactly once, that occurrence is replaced and
\* occurrences is 1.
C6_OccurrencesReported ==
    (last.op = "edit" /\ last.result.path # None)
    => LET pieces == Pieces(BeforeText, last.args.old_string) IN
       /\ last.result.occurrences = Some(Len(pieces) - 1)
       /\ Len(pieces) >= 2
       /\ ~last.args.replace_all => Len(pieces) = 2
       /\ AfterText = Join(pieces, last.args.new_string)
       /\ last.result.error = None

C6_Witness ==
    /\ last.op = "edit"
    /\ last.args.replace_all
    /\ last.result.occurrences = Some(2)
    /\ last.args.old_string # <<>>
    /\ last.args.new_string # last.args.old_string

\* C7: edit on an existing file that does not contain old returns the
\* 'String not found' error, with replace_all or without, and leaves the file
\* as it was.
C7_MissingStringRefused ==
    (/\ last.op = "edit"
     /\ BeforeExists
     /\ ~Occurs(BeforeText, last.args.old_string))
    => /\ last.result = EditResult(
              Some(StringNotFoundError(last.args.old_string)), None, None)
       /\ fs = last.before

C7_Witness ==
    /\ last.op = "edit"
    /\ last.args.replace_all
    /\ BeforeExists
    /\ BeforeText # <<>>
    /\ ~Occurs(BeforeText, last.args.old_string)
    /\ last.result.error = Some(StringNotFoundError(last.args.old_string))

\* C8: edit fails with a message of its own for each of its three failures:
\* file not found for a missing file, string not found for a file without
\* old, multiple occurrences for several occurrences without replace_all.
C8_DistinctEditErrors ==
    /\ (last.op = "edit" /\ ~BeforeExists)
       => last.result.error = Some(FileNotFoundError(last.file_path))
    /\ (/\ last.op = "edit"
        /\ BeforeExists
        /\ ~Occurs(BeforeText, last.args.old_string))
       => last.result.error = Some(StringNotFoundError(last.args.old_string))
    /\ (/\ last.op = "edit"
        /\ BeforeExists
        /\ OccursTwice(BeforeText, last.args.old_string)
        /\ ~last.args.replace_all)
       => last.result.error
              = Some(MultipleOccurrencesError(last.args.old_string))

\* the path the i-th input of a batch names
InputPath(i) ==
    IF last.op = "upload_files" THEN last.args[i][1] ELSE last.args[i]

Batch == last.op \in {"upload_files", "download_files"}

\* C9: upload_files and download_files return one entry per input, the i-th
\* entry for the i-th input's path, whatever the service answers.
C9_BatchShape ==
    Batch
    => /\ ~last.result.raised
       /\ Len(last.result.value) = Len(last.args)
       /\ \A i \in 1..Len(last.args) : last.result.value[i].path = InputPath(i)

\* C10: when the remote call fails, every requested path is reported failed,
\* in input order: 'permission_denied' for an upload, 'file_not_found' and no
\* content for a download; no exception escapes.
C10_TransportFailure ==
    (Batch /\ last.answer.failed)
    => /\ ~last.result.raised
       /\ Len(last.result.value) = Len(last.args)
       /\ \A i \in 1..Len(last.args) :
              last.result.value[i] =
                  IF last.op = "upload_files"
                  THEN FileUploadResponse(InputPath(i), Some("permission_denied"))
                  ELSE FileDownloadResponse(InputPath(i), None,
                                            Some("file_not_found"))

C10_Witness ==
    /\ last.op = "upload_files"
    /\ last.answer.failed
    /\ Len(last.args) = 2
    /\ last.args[1][1] # last.args[2][1]
    /\ ~last.result.raised
    /\ Len(last.result.value) = 2


\* the service answered the batch in `last` with one result per input, in
\* input order
AnsweredInOrder ==
    /\ Batch
    /\ ~last.answer.failed
    /\ Len(last.answer.results) = Len(last.args)
    /\ \A i \in 1..Len(last.args) : last.answer.results[i].path = InputPath(i)

\* C11: when the service answers a batch entry by entry, the result has one
\* entry per input in input order, an entry's error is populated exactly when
\* the service reported an error for that entry, whatever its siblings did,
\* and a download entry has content exactly when it has no error.
C11_PartialSuccess ==
    AnsweredInOrder
    => /\ ~last.result.raised
       /\ Len(last.result.value) = Len(last.args)
       /\ \A i \in 1..Len(last.args) :
              LET entry == last.result.value[i]
                  reported == last.answer.results[i].error
              IN  /\ entry.path = InputPath(i)
                  /\ entry.error = (IF reported = "" THEN None ELSE Some(reported))
                  /\ last.op = "download_files"
                     => ((entry.content # None) <=> (entry.error = None))

C11_Witness ==
    /\ AnsweredInOrder
    /\ last.op = "upload_files"
    /\ Len(last.args) = 2
    /\ last.args[1][1] # last.args[2][1]
    /\ last.answer.results[1].error = ""
    /\ last.answer.results[2].error # ""
    /\ last.result.value[1].error = None
    /\ last.result.value[2].error # None


\* the constructor was given a sandbox_id
Supplied == inst.sandbox_id # None /\ inst.sandbox_id[1] \in GivenIds

\* C12: over the accesses of id on one instance GetId is issued at most once,
\* never when a sandbox_id was supplied, and an access that follows another one
\* issues no GetId.
C12_MemoizedId ==
    /\ chan.GetId <= 1
    /\ Supplied => chan.GetId = 0
    /\ (last.op = "GrpcSandbox.id" /\ Len(ids) >= 2) => last.answer = NoAnswer

\* C13: every access of id on one instance returns what the first access
\* returned.
C13_StableId == \A i \in 1..Len(ids) : ids[i] = ids[1]

\* the call in `last` is a call on the GrpcSandbox whose remote call failed
TransportFailed(op) == last.op = op /\ last.answer.failed

\* a string that _handle_rpc_error formats for the operation
IsRpcErrorString(value, operation) ==
    /\ Len(value) = 4
    /\ value[1] = "Error: RPC communication failed during "
    /\ value[2] = operation
    /\ value[4] = last.answer.details

\* C14: an operation of the GrpcSandbox whose remote call fails, at call time
\* or part-way through a stream, raises nothing and returns its error value:
\* the error string for read and grep_raw, a result with error set for write
\* and edit, exit code 1 with the error as output for execute, the empty list
\* for ls_info and glob_info, per-path failures for the batches, the fallback
\* for id.
C14_NoTransportException ==
    LET value == last.result.value IN
    /\ (last.op # "none" /\ last.answer.failed) => ~last.result.raised
    /\ TransportFailed("GrpcSandbox.read") => IsRpcErrorString(value, "read")
    /\ TransportFailed("GrpcSandbox.grep_raw") => IsRpcErrorString(value, "grep")
    /\ TransportFailed("GrpcSandbox.write")
       => /\ value.error # None /\ IsRpcErrorString(value.error[1], "write")
          /\ value.path = None
    /\ TransportFailed("GrpcSandbox.edit")
       => /\ value.error # None /\ IsRpcErrorString(value.error[1], "edit")
          /\ value.path = None
          /\ value.occurrences = None
    /\ TransportFailed("GrpcSandbox.execute")
       => value.exit_code = 1 /\ IsRpcErrorString(value.output, "execute")
    /\ TransportFailed("GrpcSandbox.ls_info") => value = <<>>
    /\ TransportFailed("GrpcSandbox.glob_info") => value = <<>>
    /\ TransportFailed("GrpcSandbox.id") => value = <<"grpc-sandbox-", Endpoint>>
    /\ TransportFailed("upload_files")
       => /\ Len(value) = Len(last.args)
          /\ \A i \in 1..Len(value) : value[i].error = Some("permission_denied")
    /\ TransportFailed("download_files")
       => /\ Len(value) = Len(last.args)
          /\ \A i \in 1..Len(value) :
                 value[i].error = Some("file_not_found") /\ value[i].content = None

\* a stream that fails after it has yielded an item
C14_Witness ==
    /\ TransportFailed("GrpcSandbox.ls_info")
    /\ Len(last.answer.items) >= 1
    /\ last.result = Returned(<<>>)

\* C15: once close() has been called, once or more often, the channel's
\* close has been invoked exactly once.
C15_ChannelReleasedOnce == chan.calls >= 1 => chan.close = 1


\* the WriteResult or EditResult that the call in `last` returned
ReturnedResult ==
    IF last.op \in {"write", "edit"} THEN last.result ELSE last.result.value

\* C16: every WriteResult and EditResult that write or edit of either backend
\* returns has exactly one of path and error set, files_update unset, and for
\* an EditResult occurrences set exactly when path is.
C16_SuccessXorError ==
    /\ last.op \in {"GrpcSandbox.write", "GrpcSandbox.edit"} => ~last.result.raised
    /\ last.op \in {"write", "edit", "GrpcSandbox.write", "GrpcSandbox.edit"}
       => /\ (ReturnedResult.path # None) # (ReturnedResult.error # None)
          /\ ReturnedResult.error # None
             => ReturnedResult.error[1]
                    # (IF last.op \in {"write", "edit"} \/ last.answer.failed
                       THEN <<>> ELSE "")
          /\ ReturnedResult.files_update = None
    /\ last.op \in {"edit", "GrpcSandbox.edit"}
       => ((ReturnedResult.occurrences # None) <=> (ReturnedResult.path # None))

\* an edit that the service refused
C16_Witness ==
    /\ last.op = "GrpcSandbox.edit"
    /\ ~last.answer.failed
    /\ last.answer.response.error # ""
    /\ ReturnedResult.error = Some(last.answer.response.error)
    /\ ReturnedResult.occurrences = None


\* the path names no directory of the sandbox
DirMissing(fsys, path) ==
    path # Cwd /\ path \notin Dirs /\ ~FileAt(fsys, path).exists

\* C17: ls_info of a directory that does not exist, or that may not be read,
\* returns the empty list on the BaseSandbox; GrpcSandbox.ls_info never raises,
\* returns a list of FileInfo, and the empty list when the ListInfo call fails
\* or streams nothing.
C17_MissingDirectoryEmpty ==
    /\ last.op = "ls_info"
       /\ (DirMissing(last.before, last.file_path) \/ last.args.denied)
       => last.result = <<>>
    /\ last.op = "GrpcSandbox.ls_info"
       => /\ ~last.result.raised
          /\ \A i \in 1..Len(last.result.value) :
                 {"path", "is_dir"} \subseteq DOMAIN last.result.value[i]
          /\ (last.answer.failed \/ last.answer.items = <<>>)
             => last.result.value = <<>>

\* a listing of a missing directory beside a working directory that has a file
C17_Witness ==
    /\ last.op = "ls_info"
    /\ last.file_path = <<"d">>
    /\ ~last.args.denied
    /\ \E n \in Names : last.before[n].exists
    /\ last.result = <<>>

\* C18: every parameter is encoded or quoted before it goes into the command,
\* so a quote character in it cannot change the command that runs: a write to
\* a path that names no file succeeds whatever characters the path holds.
C18_ParametersEncoded ==
    last.op = "write" /\ ~FileAt(last.before, last.file_path).exists
    => last.result.error = None /\ last.result.path = Some(last.file_path)

\* the matches of pattern under path in the files fsys, by ascending name
GlobMatches(fsys, pattern, path) ==
    IF path = Cwd THEN Sorted({m \in Entries(fsys) : FnMatch(pattern, m)}) ELSE <<>>

\* C19: glob_info returns one FileInfo for each match of the pattern under
\* path, by ascending name, each with the size and the modification time of
\* the match beside its path and is_dir.
C19_GlobMetadata ==
    last.op = "glob_info"
    => LET matches == GlobMatches(last.before, last.args.pattern, last.file_path) IN
       /\ Len(last.result) = Len(matches)
       /\ \A i \in 1..Len(matches) :
              /\ last.result[i].path = matches[i]
              /\ last.result[i].is_dir = (matches[i] \in Dirs)
              /\ {"size", "modified_at"} \subseteq DOMAIN last.result[i]

\* the string "Error: File '<path>' not found"
NotFoundString(path) == <<"Error: File '">> \o path \o <<"' not found">>

\* what the execute primitive answered to the read in `last`
ReadResponse ==
    ReadScript(last.before, last.file_path, last.args.offset, last.args.limit)

\* C20: read returns the not-found string for a path that names no file, the
\* empty-file notice for a file of zero bytes, and the same not-found string
\* whenever execute ends with a non-zero exit code or prints the error marker.
C20_ReadClassification ==
    last.op = "read"
    => /\ ~FileAt(last.before, last.file_path).exists
          => last.result = NotFoundString(last.file_path)
       /\ (/\ FileAt(last.before, last.file_path).exists
           /\ FileAt(last.before, last.file_path).data = <<>>)
          => last.result = <<EmptyNotice>>
       /\ (ReadResponse.exit_code # 0 \/ Has(ReadResponse.output, NotFoundMarker))
          => last.result = NotFoundString(last.file_path)

\* a read that ended with exit code 0 and the marker in its output
C20_Witness ==
    /\ last.op = "read"
    /\ FileAt(last.before, last.file_path).exists
    /\ ReadResponse.exit_code = 0
    /\ Has(ReadResponse.output, NotFoundMarker)
    /\ last.result = NotFoundString(last.file_path)

GrepSearched == {last.args.env.order[i] : i \in 1..Len(last.args.env.order)}
GrepNothingMatches ==
    \A n \in GrepSearched : ~Occurs(GrepText(last.before, n), last.args.pattern)

\* C22: grep_raw never raises and always returns a list of GrepMatch, whatever
\* execute printed; the list is empty when nothing matches, when the search
\* path does not exist and when grep is not installed.
C22_GrepSwallowsFailures ==
    last.op = "grep_raw"
    => /\ ~last.result.raised
       /\ \A i \in 1..Len(last.result.value) :
              DOMAIN last.result.value[i] = {"path", "line", "text"}
       /\ (GrepNothingMatches \/ last.file_path # Cwd \/ ~last.args.env.installed)
          => last.result.value = <<>>

\* the pieces of text of which GrpcSandbox makes its error strings
RpcTexts ==
    {"Error: RPC communication failed during ", ": ", "grep", "ls", "glob"}
        \cup RpcDetails

\* v is a piece of text, not a record
IsText(v) == \E t \in RpcTexts : ToString(v) = ToString(t)

\* value is a list of records that each have the keys named
IsListOf(value, keys) ==
    \A i \in 1..Len(value) : ~IsText(value[i]) /\ keys \subseteq DOMAIN value[i]

\* C23: whatever the remote call does, GrpcSandbox.ls_info and glob_info
\* return a list of FileInfo and GrpcSandbox.grep_raw returns a list of
\* GrepMatch, the shapes that the BaseSandbox returns.
C23_SameResultShape ==
    /\ last.op \in {"GrpcSandbox.ls_info", "GrpcSandbox.glob_info"}
       => ~last.result.raised /\ IsListOf(last.result.value, {"path", "is_dir"})
    /\ last.op = "GrpcSandbox.grep_raw"
       => ~last.result.raised
          /\ IsListOf(last.result.value, {"path", "line", "text"})

\* the types of a list of middleware, in order
Types(middleware) == [i \in 1..Len(middleware) |-> middleware[i].type]

CoreTypes ==
    <<"SummarizationMiddleware", "AnthropicPromptCachingMiddleware",
      "PatchToolCallsMiddleware">>

\* C24: graph.py loads, and _create_core_middleware(model) returns the five
\* middleware TodoList, Filesystem, Summarization, AnthropicPromptCaching,
\* PatchToolCalls in that order on every call, the summarization with trigger
\* ('tokens', 45000) and keep ('messages', 6).
C24_FiveMiddleware ==
    /\ graph # <<>> => graph.raised = None
    /\ (last.op = "_create_core_middleware" /\ Len(last.args) = 1)
       => /\ ~last.result.raised
          /\ Types(last.result.value)
                 = <<"TodoListMiddleware", "FilesystemMiddleware">> \o CoreTypes
          /\ last.result.value[3].trigger = <<"tokens", 45000>>
          /\ last.result.value[3].keep = <<"messages", 6>>

\* C25: _create_core_middleware(model, trigger, keep) returns the three
\* middleware Summarization, AnthropicPromptCaching, PatchToolCalls in that
\* order, and create_deep_agent puts them after TodoList and Filesystem in the
\* main agent's stack and in the subagents' stack.
C25_ThreeMiddleware ==
    /\ (last.op = "_create_core_middleware" /\ Len(last.args) = 3)
       => ~last.result.raised /\ Types(last.result.value) = CoreTypes
    /\ last.op = "create_deep_agent"
       => /\ ~last.result.raised
          /\ LET main == Types(last.result.value.middleware)
                 sub == Types(last.result.value.middleware[3].default_middleware)
             IN  /\ SubSeq(main, 1, 2) = <<"TodoListMiddleware", "FilesystemMiddleware">>
                 /\ SubSeq(main, 4, 6) = CoreTypes
                 /\ sub = <<"TodoListMiddleware", "FilesystemMiddleware">> \o CoreTypes

\* the script that each operation of BaseSandbox hands to execute()
ScriptOf ==
    [read |-> "read", write |-> "write", edit |-> "edit", ls_info |-> "ls",
     grep_raw |-> "grep", glob_info |-> "glob"]

\* C26: each call of read, write, edit, ls_info, grep_raw and glob_info on
\* BaseSandbox hands exactly one command to execute(), whether the call
\* succeeds or fails, and that command is the operation's own script: a check
\* and the mutation it guards never travel as two commands.
C26_OneExecutePerCall ==
    last.op \in DOMAIN ScriptOf
    => /\ Len(last.commands) = 1
       /\ last.commands[1].script = ScriptOf[last.op]

\* a write refused because the file exists, decided and reported by one command
C26_Witness ==
    /\ last.op = "write"
    /\ FileAt(last.before, last.file_path).exists
    /\ last.result.error # None
    /\ Len(last.commands) = 1

\* C27: read of an existing file that is not empty never answers with the
\* not-found string, whatever the file holds; a file with a line that holds
\* the text "Error: File not found" is answered with its numbered lines.
C27_ContentNeverNotFound ==
    (/\ last.op = "read"
     /\ FileAt(last.before, last.file_path).exists
     /\ FileAt(last.before, last.file_path).data # <<>>)
    => last.result # NotFoundString(last.file_path)

\* the text caller c's edit makes of `text`
EditBy(c, text) ==
    EditedText(text, Utf8Decode(B64Decode(creq[c].old_b64)),
               Utf8Decode(B64Decode(creq[c].new_b64)), creq[c].replace_all)

\* both callers edited the file an earlier write left, with different old
\* strings that each occurred once in it, and both were told of success
BothEdited ==
    /\ \A c \in Callers :
           /\ cpc[c] = "returned"
           /\ creq[c].file_path = prev[1].file_path
           /\ PyCount(prev[1].content, creq[c].old_string) = 1
           /\ cres[c][1].error = None
    /\ creq["c1"].old_string # creq["c2"].old_string

\* C28: when two callers edit the same file at the same time, with different
\* old strings that each occur exactly once, and both edits return success,
\* the file ends up holding both replacements, as if one edit had run after
\* the other, however the scripts' reads and writes interleave.
C28_NoLostUpdate ==
    BothEdited
    => fs[prev[1].file_path].data
           \in {EditBy("c2", EditBy("c1", prev[1].content)),
                EditBy("c1", EditBy("c2", prev[1].content))}

\* the returned list has one element for each item of the stream, in the
\* stream's order
SameItems(value, items, keys) ==
    /\ Len(value) = Len(items)
    /\ \A i \in 1..Len(items) : \A k \in keys : value[i][k] = items[i][k]

\* C29: ls_info, glob_info and grep_raw of GrpcSandbox return every item of
\* the stream, in the order of emission, none lost and none twice; when the
\* stream fails, also after it gave items, they return no item at all: the
\* empty list for ls_info and glob_info, an error string for grep_raw.
C29_AllOrNothing ==
    /\ last.op \in {"GrpcSandbox.ls_info", "GrpcSandbox.glob_info"}
       => /\ ~last.result.raised
          /\ IF last.answer.failed THEN last.result.value = <<>>
             ELSE SameItems(last.result.value, last.answer.items,
                            {"path", "is_dir"})
    /\ last.op = "GrpcSandbox.grep_raw"
       => /\ ~last.result.raised
          /\ IF last.answer.failed
             THEN last.result.value = handle_rpc_error(last.answer, "grep")
             ELSE SameItems(last.result.value, last.answer.items,
                            {"path", "line", "text"})

\* a glob whose stream failed after it gave items
C29_Witness ==
    /\ last.op = "GrpcSandbox.glob_info"
    /\ last.answer.failed
    /\ last.answer.items # <<>>
    /\ last.result.value = <<>>

\* C30: only a write or an edit that succeeds changes the files: read,
\* ls_info, grep_raw and glob_info leave every file as it was, a write that
\* returns an error leaves the file that was already there as it was, and an
\* edit that returns an error leaves the files as they were.
C30_OnlySuccessChanges ==
    /\ last.op \in {"read", "ls_info", "grep_raw", "glob_info"}
       => fs = last.before
    /\ (last.op = "write" /\ last.result.error # None /\ BeforeExists)
       => FileAt(fs, last.file_path) = FileAt(last.before, last.file_path)
    /\ (last.op = "edit" /\ last.result.error # None)
       => fs = last.before
=============================================================================
